---- MODULE Spec2Model ----
(***************************************************************************)
(* State-machine model of the instanced PCB entity stores (SMDPads,        *)
(* ThroughHoles, FlatTraces), the Interaction hover/selection machine and  *)
(* the Serialization resource ledger.                                      *)
(*                                                                         *)
(* Lengths are integers in units of 0.01 mm (the COPPER_OFFSET_MM of the   *)
(* source is 1 unit, the default 1.6 mm board is 160 units); a scale       *)
(* factor is held in hundredths too, so the factor 1 is 100.               *)
(* A JavaScript Map is a sequence of records in insertion order.           *)
(* A 4x4 instance matrix is the triple it is composed from:                *)
(* [pos, rot, scale]; rot is the rotation about the board normal.          *)
(***************************************************************************)
EXTENDS Integers, Sequences, FiniteSets, TLC

VARIABLES
  boardThickness,  \* CopperLayerManager.boardThickness
  smdPads,         \* the SMDPads store
  flatTraces,      \* the FlatTraces store
  throughHoles,    \* the ThroughHoles store
  lastCall,        \* the last public store call and its return value
  interaction,     \* the fields of the Interaction object
  uniforms,        \* the hover/selection uniforms of each mesh's material
  resourceTracker, \* Serialization.resourceTracker
  disposeCalls,    \* number of dispose() calls each GPU resource has received
  engine,          \* the fields of the Engine and of the objects it owns
  shaderManager,   \* the ShaderManager singleton
  raf,             \* the browser's animation-frame queue
  viewer,          \* the PCBViewer component: mounted, timers, effect cleanup
  board            \* the Board: width, height, and the substrate geometries made

storeVars == <<smdPads, flatTraces, throughHoles, lastCall>>
interactionVars == <<interaction, uniforms>>
ledgerVars == <<resourceTracker, disposeCalls>>
engineVars == <<engine, shaderManager, raf, viewer, board>>

vars == <<boardThickness, smdPads, flatTraces, throughHoles, lastCall,
          interaction, uniforms, resourceTracker, disposeCalls,
          engine, shaderManager, raf, viewer, board>>

----------------------------------------------------------------------------
(* Bounds of the model *)

PadMaxInstances == 2
HoleMaxInstances == 2
TraceMaxInstances == 3
MaxDisposeCalls == 4
MaxFrames == 5
MaxImports == 2
MaxPlanes == 2
MaxResets == 2

(* Program constants *)

COPPER_OFFSET_MM == 1
DEFAULT_THICKNESS == 160
HOLE_EXTRA_DEPTH == 10

----------------------------------------------------------------------------
(* Values *)

Null == "null"

(* A record of the last call: its name, its boolean result (TRUE for a void
   call), the count it returned (addPads), and whether the call before it was
   the same parameterless call (disposeResources). *)
Call(op, ret, count) ==
  [op |-> op, ret |-> ret, count |-> count, repeated |-> FALSE]

ZeroMatrix == [pos |-> <<0, 0, 0>>, rot |-> 0, scale |-> <<0, 0, 0>>]

Compose(position, rotation, scale) ==
  [pos |-> position, rot |-> rotation, scale |-> scale]

MakeTranslation(x, y, z) ==
  [pos |-> <<x, y, z>>, rot |-> 0, scale |-> <<100, 100, 100>>]

PadIds == {"p1", "p2", "p3"}

(* The pads offered to addPad: "p1" comes in two versions, so that adding an
   id twice with different contents is among the inputs. *)
PadInputs ==
  { [id |-> "p1", type |-> "rect", position |-> <<0, 0, 0>>,
     size |-> <<200, 200>>, rotation |-> 0, layer |-> "top"],
    [id |-> "p1", type |-> "circle", position |-> <<600, 0, 300>>,
     size |-> <<100, 100>>, rotation |-> 45, layer |-> "bottom"],
    [id |-> "p2", type |-> "circle", position |-> <<600, 0, 300>>,
     size |-> <<100, 100>>, rotation |-> 45, layer |-> "bottom"],
    [id |-> "p3", type |-> "rect", position |-> <<0, 0, 0>>,
     size |-> <<200, 200>>, rotation |-> 0, layer |-> "top"] }

PadLists ==
  { <<a, b>> : a \in {p \in PadInputs : p.id = "p1"},
               b \in {p \in PadInputs : p.id # "p1"} }

(* The holes offered to ThroughHoleManager.addHole: <<id, x, z, diameter>> *)
HoleInputs ==
  { <<"h1", 0, 0, 80>>, <<"h1", 1000, -1000, 80>>, <<"h2", 1000, -1000, 80>> }

(* The traces offered to addTrace.  Waypoints and widths are whole
   millimetres, so that every segment length is a whole number: polylines of
   0, 1, 2, 3 and 4 waypoints. *)
TraceInputs ==
  { [id |-> "t1", points |-> << <<0, 0>>, <<10, 0>>, <<10, 10>> >>,
     width |-> 1, layer |-> "top"],
    [id |-> "t2", points |-> << <<0, 0>>, <<0, 6>> >>,
     width |-> 2, layer |-> "bottom"],
    [id |-> "t3", points |-> << <<5, 5>> >>,
     width |-> 1, layer |-> "top"],
    [id |-> "t4", points |-> << >>,
     width |-> 1, layer |-> "bottom"],
    [id |-> "t5", points |-> << <<0, 0>>, <<3, 0>>, <<3, 4>>, <<0, 4>> >>,
     width |-> 2, layer |-> "top"] }

TraceIds == { t.id : t \in TraceInputs } \cup {"t9"}

----------------------------------------------------------------------------
(* CopperLayerManager *)

TopCopperZ(thickness) == (thickness \div 2) + COPPER_OFFSET_MM

BottomCopperZ(thickness) == (0 - (thickness \div 2)) - COPPER_OFFSET_MM

getTopCopperZ == TopCopperZ(boardThickness)

getBottomCopperZ == BottomCopperZ(boardThickness)

updateBoardThickness(newThickness) == newThickness

(* The JavaScript numbers of CopperLayerManager as IEEE 754 binary64 values.
   A non-negative value is held exactly, as the natural number of units of
   2^-FractionBits it amounts to, written in binary with the lowest bit
   first; every operation computes the exact result and rounds it to
   MantissaBits significant bits, ties to even.  The values met here are far
   from the overflow and underflow thresholds. *)
MantissaBits == 53

FractionBits == 64

RECURSIVE Bits(_)
Bits(n) == IF n = 0 THEN << >> ELSE <<n % 2>> \o Bits(n \div 2)

Bit(a, i) == IF i \in 1..Len(a) THEN a[i] ELSE 0

Longer(a, b) == IF Len(a) >= Len(b) THEN Len(a) ELSE Len(b)

(* The number of bits up to the highest 1 *)
Width(a) ==
  IF \A i \in 1..Len(a) : a[i] = 0
    THEN 0
    ELSE CHOOSE i \in 1..Len(a) :
           a[i] = 1 /\ \A m \in (i + 1)..Len(a) : a[m] = 0

(* a + b: the carry into place i comes from the nearest lower place that
   makes one, if every place between passes it on *)
Plus(a, b) ==
  LET carry(i) ==
        IF \E j \in 1..(i - 1) :
             /\ Bit(a, j) + Bit(b, j) = 2
             /\ \A m \in (j + 1)..(i - 1) : Bit(a, m) + Bit(b, m) = 1
          THEN 1 ELSE 0
  IN  [i \in 1..(Longer(a, b) + 1) |->
         (Bit(a, i) + Bit(b, i) + carry(i)) % 2]

(* a - b for a >= b: the borrow from place i likewise *)
Minus(a, b) ==
  LET borrow(i) ==
        IF \E j \in 1..(i - 1) :
             /\ Bit(a, j) < Bit(b, j)
             /\ \A m \in (j + 1)..(i - 1) : Bit(a, m) = Bit(b, m)
          THEN 1 ELSE 0
  IN  [i \in 1..Len(a) |-> (Bit(a, i) + 2 - Bit(b, i) - borrow(i)) % 2]

Less(a, b) ==
  \E i \in 1..Longer(a, b) :
    /\ Bit(a, i) < Bit(b, i)
    /\ \A m \in (i + 1)..Longer(a, b) : Bit(a, m) = Bit(b, m)

(* Round to nearest, ties to even, at MantissaBits significant bits *)
Round(a) ==
  LET drop == Width(a) - MantissaBits
  IN  IF drop <= 0
        THEN SubSeq(a, 1, Width(a))
        ELSE LET kept == SubSeq(a, drop + 1, Width(a))
                 guard == a[drop]
                 sticky == \E i \in 1..(drop - 1) : a[i] = 1
                 up == guard = 1 /\ (sticky \/ kept[1] = 1)
             IN  [i \in 1..drop |-> 0] \o
                   (IF up THEN Plus(kept, <<1>>) ELSE kept)

(* 2^k mod d *)
RECURSIVE PowerOfTwoMod(_, _)
PowerOfTwoMod(k, d) ==
  IF k = 0
    THEN 1 % d
    ELSE LET h == PowerOfTwoMod(k \div 2, d)
         IN  (h * h * (IF k % 2 = 1 THEN 2 ELSE 1)) % d

(* floor(n * 2^k / d) and the remainder, for small naturals n and d: the
   quotient doubles with each further power of two and gains a low 1 when
   twice the remainder so far reaches d *)
Divide(n, d, k) ==
  LET remainder(j) == ((n % d) * PowerOfTwoMod(j, d)) % d
  IN  [q |-> [i \in 1..k |-> IF 2 * remainder(k - i) >= d THEN 1 ELSE 0]
               \o Bits(n \div d),
       r |-> remainder(k)]

(* The binary64 value of the decimal n/d: the quotient is taken with four
   more bits than are kept, the lowest of them recording whether anything
   was cut off, and then rounded. *)
ToNumber(n, d) ==
  LET p == Divide(n, d, FractionBits + 3)
      rounded == Round(<<IF p.r # 0 THEN 1 ELSE 0>> \o p.q)
  IN  SubSeq(rounded, 5, Len(rounded))

Add64(a, b) == Round(Plus(a, b))

(* Math.abs(a - b) *)
AbsSub64(a, b) ==
  Round(IF Less(a, b) THEN Minus(b, a) ELSE Minus(a, b))

(* x / 2 and 2 * x, exact in binary *)
Half64(a) == IF a = << >> THEN a ELSE Tail(a)

Twice64(a) == <<0>> \o a

(* this.COPPER_OFFSET_MM, the number 0.01 *)
CopperOffset64 == ToNumber(COPPER_OFFSET_MM, 100)

(* The thickness of t hundredths of a millimetre as the number the program
   holds *)
Thickness64(t) == ToNumber(t, 100)

(* getTopCopperZ() for a thickness; getBottomCopperZ() is its negative *)
TopCopperZ64(t) == Add64(Half64(Thickness64(t)), CopperOffset64)

validateZSeparation(t) ==
  LET topZ == TopCopperZ64(t)
      boardTop == Half64(Thickness64(t))
      separation == AbsSub64(topZ, boardTop)
  IN  ~Less(separation, CopperOffset64)

----------------------------------------------------------------------------
(* Map helpers: a Map is a sequence of records with distinct ids *)

Keys(m) == { m[i].id : i \in 1..Len(m) }

Has(m, id) == id \in Keys(m)

IndexOf(m, id) ==
  IF Has(m, id) THEN (CHOOSE i \in 1..Len(m) : m[i].id = id) - 1 ELSE -1

MapSet(m, rec) ==
  IF Has(m, rec.id)
    THEN [i \in 1..Len(m) |-> IF m[i].id = rec.id THEN rec ELSE m[i]]
    ELSE Append(m, rec)

MapDelete(m, id) == SelectSeq(m, LAMBDA r : r.id # id)

SetMatrixAt(buffer, slot, matrix) ==
  IF slot \in DOMAIN buffer THEN [buffer EXCEPT ![slot] = matrix] ELSE buffer

----------------------------------------------------------------------------
(* SMDPads *)

SMDPadsNew ==
  [ padData |-> << >>,
    instanceCount |-> 0,
    instancedMeshCount |-> PadMaxInstances,
    edgeMeshCount |-> PadMaxInstances,
    instanceMatrix |-> [s \in 0..(PadMaxInstances - 1) |-> ZeroMatrix],
    edgeInstanceMatrix |-> [s \in 0..(PadMaxInstances - 1) |-> ZeroMatrix] ]

PadMatrix(padData) ==
  LET targetZ == IF padData.layer = "top" THEN getTopCopperZ ELSE getBottomCopperZ
  IN  Compose(<<padData.position[1], targetZ, padData.position[3]>>,
              padData.rotation,
              <<padData.size[1], 100, padData.size[2]>>)

updateInstanceMatrix(store, padData, instanceId) ==
  [store EXCEPT !.instanceMatrix = SetMatrixAt(@, instanceId, PadMatrix(padData))]

PadStoreFullOffByOne(store) == store.instanceCount > PadMaxInstances

PadStoreFull(store) == store.instanceCount >= PadMaxInstances

addPad(store, padData) ==
  IF PadStoreFull(store)
    THEN [store |-> store, ret |-> FALSE]
    ELSE LET s1 == [store EXCEPT !.padData = MapSet(@, padData)]
             s2 == updateInstanceMatrix(s1, padData, s1.instanceCount)
             n  == s2.instanceCount + 1
         IN  [store |-> [s2 EXCEPT
                           !.instanceCount = n,
                           !.instancedMeshCount = n,
                           !.edgeInstanceMatrix =
                              SetMatrixAt(@, n - 1, PadMatrix(padData)),
                           !.edgeMeshCount = n],
              ret |-> TRUE]

RECURSIVE addPadsFrom(_, _, _)
addPadsFrom(store, padsArray, addedCount) ==
  IF padsArray = << >>
    THEN [store |-> store, ret |-> addedCount]
    ELSE LET r == addPad(store, Head(padsArray))
         IN  addPadsFrom(r.store, Tail(padsArray),
                         IF r.ret THEN addedCount + 1 ELSE addedCount)

(* addPads counting every item of the list, accepted or not *)
addPadsCountsAll(store, padsArray) ==
  [store |-> addPadsFrom(store, padsArray, 0).store, ret |-> Len(padsArray)]

addPads(store, padsArray) == addPadsFrom(store, padsArray, 0)

(* rebuildInstances without the reset of the three counts *)
rebuildInstancesKeepsCounts(store) ==
  addPads([store EXCEPT !.padData = << >>], store.padData).store

rebuildInstances(store) ==
  LET remainingPads == store.padData
      emptied == [store EXCEPT !.instanceCount = 0,
                               !.instancedMeshCount = 0,
                               !.edgeMeshCount = 0,
                               !.padData = << >>]
  IN  addPads(emptied, remainingPads).store

(* removePad without the test for a missing record *)
removePadUnchecked(store, padId) ==
  [store |-> rebuildInstances([store EXCEPT !.padData = MapDelete(@, padId)]),
   ret |-> TRUE]

removePad(store, padId) ==
  IF ~Has(store.padData, padId)
    THEN [store |-> store, ret |-> FALSE]
    ELSE [store |-> rebuildInstances([store EXCEPT !.padData = MapDelete(@, padId)]),
          ret |-> TRUE]

getInstanceId(store, padId) == IndexOf(store.padData, padId)

clearPads(store) ==
  [store EXCEPT !.padData = << >>,
                !.instanceCount = 0,
                !.instancedMeshCount = 0,
                !.edgeMeshCount = 0]

(* Map.get: the record in a sequence of one, or nothing *)
getPad(store, padId) == SelectSeq(store.padData, LAMBDA r : r.id = padId)

(* The shared body carried out as an addPad of the changed record *)
updatePadRecordAppends(store, padData) == addPad(store, padData)

(* The body shared by updatePadPosition and updatePadSize once the record has
   been changed: the main mesh's slot is rewritten from it. *)
updatePadRecord(store, padData) ==
  LET s1 == [store EXCEPT !.padData = MapSet(@, padData)]
      instanceId == getInstanceId(s1, padData.id)
  IN  IF instanceId # -1
        THEN [store |-> updateInstanceMatrix(s1, padData, instanceId), ret |-> TRUE]
        ELSE [store |-> s1, ret |-> FALSE]

(* SMDPads.updatePadPosition *)
SMDPads_updatePadPosition(store, padId, newPosition) ==
  IF getPad(store, padId) = << >>
    THEN [store |-> store, ret |-> FALSE]
    ELSE updatePadRecord(store, [getPad(store, padId)[1] EXCEPT !.position = newPosition])

updatePadSize(store, padId, newSize) ==
  IF getPad(store, padId) = << >>
    THEN [store |-> store, ret |-> FALSE]
    ELSE updatePadRecord(store, [getPad(store, padId)[1] EXCEPT !.size = newSize])

----------------------------------------------------------------------------
(* ThroughHoles and ThroughHoleManager *)

ThroughHolesNew ==
  [ holeData |-> << >>,
    instanceCount |-> 0,
    instancedMeshCount |-> HoleMaxInstances,
    edgeMeshCount |-> HoleMaxInstances,
    instanceMatrix |-> [s \in 0..(HoleMaxInstances - 1) |-> ZeroMatrix],
    edgeInstanceMatrix |-> [s \in 0..(HoleMaxInstances - 1) |-> ZeroMatrix] ]

HoleStoreFull(store) == store.instanceCount >= HoleMaxInstances

HoleMatrix(data) ==
  Compose(<<data.position[1], 0, data.position[3]>>, 0,
          <<data.diameter, data.depth, data.diameter>>)

addHoleData(store, data) ==
  IF HoleStoreFull(store)
    THEN [store |-> store, ret |-> FALSE]
    ELSE LET n == store.instanceCount + 1
         IN  [store |-> [store EXCEPT
                           !.holeData = MapSet(@, data),
                           !.instanceMatrix =
                              SetMatrixAt(@, n - 1, HoleMatrix(data)),
                           !.edgeInstanceMatrix =
                              SetMatrixAt(@, n - 1, HoleMatrix(data)),
                           !.instanceCount = n,
                           !.instancedMeshCount = n,
                           !.edgeMeshCount = n],
              ret |-> TRUE]

addHole(store, id, x, z, diameter) ==
  addHoleData(store, [id |-> id, position |-> <<x, 0, z>>, diameter |-> diameter,
                      depth |-> boardThickness + HOLE_EXTRA_DEPTH])

clearHoles(store) ==
  [store EXCEPT !.holeData = << >>,
                !.instanceCount = 0,
                !.instancedMeshCount = 0]

----------------------------------------------------------------------------
(* FlatTraces *)

FlatTracesNew ==
  [ traces |-> << >>,
    traceSegments |-> << >>,
    instanceCount |-> 0,
    instancedMeshCount |-> TraceMaxInstances,
    instanceMatrix |-> [s \in 0..(TraceMaxInstances - 1) |-> ZeroMatrix] ]

(* Math.sqrt on the perfect squares the inputs produce *)
Sqrt(n) == CHOOSE r \in 0..n : r * r = n

(* Math.atan2 in degrees, on the axis-parallel directions the inputs produce *)
Atan2(dz, dx) ==
  IF dz = 0 THEN (IF dx >= 0 THEN 0 ELSE 180)
  ELSE IF dx = 0 THEN (IF dz > 0 THEN 90 ELSE -90)
  ELSE IF dz > 0 THEN (IF dx > 0 THEN 45 ELSE 135)
  ELSE (IF dx > 0 THEN -45 ELSE -135)

(* The capacity guard giving up one slot early *)
TraceFullOffByOne(store) == store.instanceCount >= TraceMaxInstances - 1

TraceFull(store) == store.instanceCount >= TraceMaxInstances

SegmentMatrix(traceData, p1, p2, length, angle) ==
  Compose(<<(p1[1] + p2[1]) \div 2,
            IF traceData.layer = "top" THEN 1 ELSE -1,   \* the literals 0.01, -0.01
            (p1[2] + p2[2]) \div 2>>,
          0 - angle,
          <<length, 100, traceData.width>>)

(* The loop of addTrace from waypoint pair i on; `segments` holds the segments
   committed so far. *)
RECURSIVE addSegmentsFrom(_, _, _, _)
addSegmentsFrom(store, traceData, i, segments) ==
  IF i > Len(traceData.points) - 1 \/ TraceFull(store)
    THEN [store |-> store, segments |-> segments]
    ELSE LET p1 == traceData.points[i]
             p2 == traceData.points[i + 1]
             dx == p2[1] - p1[1]
             dz == p2[2] - p1[2]
             length == Sqrt(dx * dx + dz * dz)
             angle == Atan2(dz, dx)
             instanceId == store.instanceCount
             segment == [startPoint |-> p1, endPoint |-> p2,
                         width |-> traceData.width, angle |-> angle,
                         length |-> length, instanceId |-> instanceId]
         IN  addSegmentsFrom(
               [store EXCEPT
                  !.instanceCount = instanceId + 1,
                  !.instanceMatrix =
                     SetMatrixAt(@, instanceId,
                                 SegmentMatrix(traceData, p1, p2, length, angle))],
               traceData, i + 1, Append(segments, segment))

(* addTrace refusing a polyline it cannot place whole *)
addTraceAllOrNothing(store, traceData) ==
  LET r == addSegmentsFrom(store, traceData, 1, << >>)
  IN  IF Len(r.segments) < Len(traceData.points) - 1
        THEN [store |-> store, ret |-> FALSE]
        ELSE [store |-> [r.store EXCEPT
                           !.traces = MapSet(@, traceData),
                           !.traceSegments =
                              MapSet(@, [id |-> traceData.id,
                                         segments |-> r.segments]),
                           !.instancedMeshCount = r.store.instanceCount],
              ret |-> TRUE]

addTrace(store, traceData) ==
  LET r == addSegmentsFrom(store, traceData, 1, << >>)
  IN  [store |-> [r.store EXCEPT
                    !.traces = MapSet(@, traceData),
                    !.traceSegments =
                       MapSet(@, [id |-> traceData.id, segments |-> r.segments]),
                    !.instancedMeshCount = r.store.instanceCount],
       ret |-> TRUE]

clearTraces(store) ==
  [store EXCEPT !.instanceCount = 0,
                !.instancedMeshCount = 0,
                !.traces = << >>,
                !.traceSegments = << >>]

(* this.traceSegments.get(traceId) || [] *)
segmentsOf(store, traceId) ==
  LET entry == SelectSeq(store.traceSegments, LAMBDA e : e.id = traceId)
  IN  IF entry = << >> THEN << >> ELSE entry[1].segments

(* segments.reduce((acc, s) => acc + s.length * s.width, 0) *)
RECURSIVE reduceArea(_, _)
reduceArea(segments, acc) ==
  IF segments = << >>
    THEN acc
    ELSE reduceArea(Tail(segments),
                    acc + (Head(segments).length * Head(segments).width))

(* segments.reduce((acc, s) => acc + s.length, 0) *)
RECURSIVE reduceLength(_, _)
reduceLength(segments, acc) ==
  IF segments = << >>
    THEN acc
    ELSE reduceLength(Tail(segments), acc + Head(segments).length)

(* calculateTraceArea summing the lengths without the widths *)
calculateTraceAreaIgnoresWidth(store, traceId) ==
  reduceLength(segmentsOf(store, traceId), 0)

calculateTraceArea(store, traceId) == reduceArea(segmentsOf(store, traceId), 0)

calculateTraceLength(store, traceId) ==
  reduceLength(segmentsOf(store, traceId), 0)

(* The first entry of traceSegments, in insertion order, one of whose segments
   holds the slot. *)
getTraceIdByInstanceId(store, instanceId) ==
  LET hits == SelectSeq(store.traceSegments,
                        LAMBDA e : \E k \in 1..Len(e.segments) :
                                     e.segments[k].instanceId = instanceId)
  IN  IF hits = << >> THEN Null ELSE hits[1].id

(* TraceManager.getTraceByMesh for the trace mesh: the record, in a sequence
   of one, or nothing *)
getTraceByMesh(store, instanceId) ==
  LET traceId == getTraceIdByInstanceId(store, instanceId)
  IN  IF traceId = Null
        THEN << >>
        ELSE SelectSeq(store.traces, LAMBDA t : t.id = traceId)

----------------------------------------------------------------------------
(* The meshes the viewer hands to Interaction, by their three.js names *)

PadMesh == "smd_pads"
PadEdgeMesh == "smd_pad_edges"
TraceMesh == "flat_traces_instanced"
HoleMesh == "through_holes"
HoleEdgeMesh == "through_hole_edges"

Meshes == {PadMesh, PadEdgeMesh, TraceMesh, HoleMesh, HoleEdgeMesh}

(* Meshes whose material is a ShaderMaterial, i.e. has a uniforms object; the
   hole outline uses a MeshBasicMaterial. *)
ShaderMaterialMeshes == {PadMesh, PadEdgeMesh, TraceMesh, HoleMesh}

(* InstancedHoverShader.createMaterial: the interaction uniforms *)
HoverShaderUniforms ==
  [uHovered |-> FALSE, uSelected |-> FALSE,
   uHoveredInstanceId |-> -1, uSelectedInstanceId |-> -1]

(* BarycentricShader.createMaterial has none of the interaction uniforms; the
   empty function stands for a uniforms object without those keys. *)
NoInteractionUniforms == << >>

UniformsNew ==
  [m \in Meshes |->
     IF m \in {PadMesh, TraceMesh, HoleMesh}
       THEN HoverShaderUniforms ELSE NoInteractionUniforms]

MeshCount(m) ==
  CASE m = PadMesh      -> smdPads.instancedMeshCount
    [] m = PadEdgeMesh  -> smdPads.edgeMeshCount
    [] m = TraceMesh    -> flatTraces.instancedMeshCount
    [] m = HoleMesh     -> throughHoles.instancedMeshCount
    [] m = HoleEdgeMesh -> throughHoles.edgeMeshCount

MeshMatrix(m) ==
  CASE m = PadMesh      -> smdPads.instanceMatrix
    [] m = PadEdgeMesh  -> smdPads.edgeInstanceMatrix
    [] m = TraceMesh    -> flatTraces.instanceMatrix
    [] m = HoleMesh     -> throughHoles.instanceMatrix
    [] m = HoleEdgeMesh -> throughHoles.edgeInstanceMatrix

----------------------------------------------------------------------------
(* Interaction.  A handler maps S = [interaction, uniforms] to the new S.
   NoInstance stands for a null instance id, Null for a null object. *)

NoInstance == -1

(* fn.bind(this) makes a new function object on every evaluation: a bound
   function is identified by the method and the place that bound it. *)
bind(fn, boundAt) == [fn |-> fn, boundAt |-> boundAt]

addEventListener(listeners, type, listener) ==
  listeners \cup {[type |-> type, listener |-> listener]}

(* removes the registration of this very function object, if there is one *)
removeEventListener(listeners, type, listener) ==
  listeners \ {[type |-> type, listener |-> listener]}

setupEventListeners(listeners) ==
  addEventListener(
    addEventListener(listeners, "mousemove",
                     bind("onMouseMove", "setupEventListeners")),
    "click", bind("onClick", "setupEventListeners"))

(* No scene: the transform controls are in none *)
NoScene == 0

(* new Interaction(camera, canvas, scene): `scene` is the Scene object, by
   its number in the order of construction, that the constructor was given;
   transformControlsScene is the scene the affordance has been added to. *)
InteractionNew ==
  [ hoveredObject |-> Null, hoveredInstanceId |-> NoInstance,
    selectedObject |-> Null, selectedInstanceId |-> NoInstance,
    transformControls |-> Null,
    interactableObjects |-> {},
    cursor |-> "",
    listeners |-> setupEventListeners({}),
    scene |-> 1,
    transformControlsScene |-> NoScene ]

(* The canvas dispatches an event of this type to a registered listener *)
Dispatches(listeners, type, fn) ==
  \E l \in listeners : l.type = type /\ l.listener.fn = fn

NoHit == [object |-> Null, instanceId |-> NoInstance]

(* The order of PCBViewer's currentMeshes list *)
MeshOrder(m) ==
  CASE m = PadMesh      -> 1
    [] m = PadEdgeMesh  -> 2
    [] m = TraceMesh    -> 3
    [] m = HoleMesh     -> 4
    [] m = HoleEdgeMesh -> 5

(* Meshes drawing the same unit shape: the pad outline is a unit plane like
   the pad, the hole outline shares holeGeometry with the hole. *)
SameShape(m, n) ==
  \/ m = n
  \/ {m, n} = {PadMesh, PadEdgeMesh}
  \/ {m, n} = {HoleMesh, HoleEdgeMesh}

(* A ray strikes only drawn instances (slot < mesh.count) whose matrix is not
   the all-zero matrix of a fresh buffer. *)
Drawn(m, i) ==
  /\ i \in DOMAIN MeshMatrix(m)
  /\ i < MeshCount(m)
  /\ MeshMatrix(m)[i] # ZeroMatrix

(* performRaycast: the candidates for intersects[0], the nearest intersection
   with the interactable meshes.  Where the pointer and the camera are is the
   environment's choice, so any drawn instance can be nearest, except that two
   instances of the same shape with the same matrix are struck at the same
   distance and the stable sort of intersectObjects keeps the one that comes
   first in the list (lower mesh, then lower slot). *)
Intersections ==
  { [object |-> h[1], instanceId |-> h[2]] :
      h \in { h \in UNION { {m} \X DOMAIN MeshMatrix(m) :
                              m \in interaction.interactableObjects } :
                /\ Drawn(h[1], h[2])
                /\ ~ \E n \in interaction.interactableObjects :
                      \E j \in DOMAIN MeshMatrix(n) :
                        /\ SameShape(n, h[1])
                        /\ Drawn(n, j)
                        /\ MeshMatrix(n)[j] = MeshMatrix(h[1])[h[2]]
                        /\ \/ MeshOrder(n) < MeshOrder(h[1])
                           \/ n = h[1] /\ j < h[2] } }

(* InstancedHoverShader, fragment shader: whether the instance being drawn is
   shown hovered / selected by mesh m's material.  A material without these
   uniforms shows nothing. *)
isInstanceHovered(m, vInstanceId) ==
  /\ "uHovered" \in DOMAIN uniforms[m]
  /\ uniforms[m].uHovered
  /\ uniforms[m].uHoveredInstanceId = vInstanceId

isInstanceSelected(m, vInstanceId) ==
  /\ "uSelected" \in DOMAIN uniforms[m]
  /\ uniforms[m].uSelected
  /\ uniforms[m].uSelectedInstanceId = vInstanceId

(* A uniform write that creates the uniform when the material lacks it *)
SetUniformCreates(u, m, name, value) ==
  [u EXCEPT ![m] = [k \in DOMAIN @ \cup {name} |-> IF k = name THEN value ELSE @[k]]]

SetUniform(u, m, name, value) ==
  IF m \in ShaderMaterialMeshes /\ name \in DOMAIN u[m]
    THEN [u EXCEPT ![m][name] = value]
    ELSE u

(* SMDPads.setPadHovered, on the uniforms of the pad mesh's material *)
setPadHovered(store, u, padId, hovered) ==
  IF getPad(store, padId) = << >>
    THEN [uniforms |-> u, ret |-> FALSE]
  ELSE IF getInstanceId(store, padId) = -1
    THEN [uniforms |-> u, ret |-> FALSE]
  ELSE [uniforms |->
          IF hovered
            THEN SetUniform(SetUniform(u, PadMesh, "uHovered", TRUE),
                            PadMesh, "uHoveredInstanceId", getInstanceId(store, padId))
            ELSE SetUniform(SetUniform(u, PadMesh, "uHovered", FALSE),
                            PadMesh, "uHoveredInstanceId", -1),
        ret |-> TRUE]

(* SMDPads.setPadSelected: setSelected with its default instance id, -1 *)
setPadSelected(store, u, padId, selected) ==
  IF getPad(store, padId) = << >>
    THEN [uniforms |-> u, ret |-> FALSE]
    ELSE [uniforms |->
            SetUniform(SetUniform(u, PadMesh, "uSelected", selected),
                       PadMesh, "uSelectedInstanceId", -1),
          ret |-> TRUE]

(* updateInstancedMeshHover pushing the instance id also when un-hovering *)
updateInstancedMeshHoverKeepsId(S, instancedMesh, instanceId, hovered) ==
  [S EXCEPT !.uniforms =
     SetUniform(SetUniform(@, instancedMesh, "uHovered", hovered),
                instancedMesh, "uHoveredInstanceId", instanceId)]

updateInstancedMeshHover(S, instancedMesh, instanceId, hovered) ==
  [S EXCEPT !.uniforms =
     SetUniform(SetUniform(@, instancedMesh, "uHovered", hovered),
                instancedMesh, "uHoveredInstanceId",
                IF hovered THEN instanceId ELSE -1)]

updateInstanceHoverState(S, object, instanceId, hovered) ==
  IF object \in Meshes
    THEN updateInstancedMeshHover(S, object, instanceId, hovered)
    ELSE S

(* clearHoverState forgetting the hovered pair without the shader write *)
clearHoverStateKeepsFlag(S) ==
  IF S.interaction.hoveredObject # Null /\ S.interaction.hoveredInstanceId # NoInstance
    THEN [S EXCEPT !.interaction.hoveredObject = Null,
                   !.interaction.hoveredInstanceId = NoInstance]
    ELSE S

(* clearHoverState resetting the selection uniforms along with the hover ones *)
clearHoverStateResetsSelection(S) ==
  IF S.interaction.hoveredObject # Null /\ S.interaction.hoveredInstanceId # NoInstance
    THEN LET m  == S.interaction.hoveredObject
             S1 == updateInstanceHoverState(S, m, S.interaction.hoveredInstanceId, FALSE)
             S2 == [S1 EXCEPT !.uniforms =
                      SetUniform(SetUniform(@, m, "uSelected", FALSE),
                                 m, "uSelectedInstanceId", -1)]
         IN  [S2 EXCEPT !.interaction.hoveredObject = Null,
                        !.interaction.hoveredInstanceId = NoInstance]
    ELSE S

clearHoverState(S) ==
  IF S.interaction.hoveredObject # Null /\ S.interaction.hoveredInstanceId # NoInstance
    THEN LET S1 == updateInstanceHoverState(S, S.interaction.hoveredObject,
                                            S.interaction.hoveredInstanceId, FALSE)
         IN  [S1 EXCEPT !.interaction.hoveredObject = Null,
                        !.interaction.hoveredInstanceId = NoInstance]
    ELSE S

updateCursor(S, hit) ==
  IF hit # NoHit
    THEN LET S2 ==
               IF S.interaction.hoveredObject # hit.object
                  \/ S.interaction.hoveredInstanceId # hit.instanceId
                 THEN LET S1 == clearHoverState(S)
                      IN  updateInstanceHoverState(
                            [S1 EXCEPT !.interaction.hoveredObject = hit.object,
                                       !.interaction.hoveredInstanceId = hit.instanceId],
                            hit.object, hit.instanceId, TRUE)
                 ELSE S
         IN  [S2 EXCEPT !.interaction.cursor = "pointer"]
    ELSE clearHoverState([S EXCEPT !.interaction.cursor = "default"])

attachTransformControls(S, object) ==
  [S EXCEPT !.interaction.transformControls = object,
            !.interaction.transformControlsScene = S.interaction.scene]

detachTransformControls(S) ==
  [S EXCEPT !.interaction.transformControls = Null,
            !.interaction.transformControlsScene = NoScene]

deselectObject(S) ==
  IF S.interaction.selectedObject # Null
    THEN LET m  == S.interaction.selectedObject
             S1 == [S EXCEPT !.uniforms =
                      SetUniform(SetUniform(@, m, "uSelected", FALSE),
                                 m, "uSelectedInstanceId", -1)]
             S2 == detachTransformControls(S1)
         IN  [S2 EXCEPT !.interaction.selectedObject = Null,
                        !.interaction.selectedInstanceId = NoInstance]
    ELSE S

(* selectObject without the deselectObject call *)
selectObjectNoDeselect(S, object, instanceId) ==
  LET S2 == [S EXCEPT !.interaction.selectedObject = object,
                      !.interaction.selectedInstanceId = instanceId]
      S3 == [S2 EXCEPT !.uniforms =
               SetUniform(SetUniform(@, object, "uSelected", TRUE),
                          object, "uSelectedInstanceId", instanceId)]
  IN  attachTransformControls(S3, object)

selectObject(S, object, instanceId) ==
  LET S1 == deselectObject(S)
      S2 == [S1 EXCEPT !.interaction.selectedObject = object,
                       !.interaction.selectedInstanceId = instanceId]
      S3 == [S2 EXCEPT !.uniforms =
               SetUniform(SetUniform(@, object, "uSelected", TRUE),
                          object, "uSelectedInstanceId", instanceId)]
  IN  attachTransformControls(S3, object)

onClick(S, hit) ==
  IF hit # NoHit
    THEN selectObject(S, hit.object, hit.instanceId)
    ELSE deselectObject(S)

(* Interaction.dispose with the listeners it registered *)
interactionDisposeRegistered(S) ==
  detachTransformControls(
    [S EXCEPT !.interaction.listeners =
       removeEventListener(
         removeEventListener(@, "mousemove",
                             bind("onMouseMove", "setupEventListeners")),
         "click", bind("onClick", "setupEventListeners"))])

interactionDispose(S) ==
  detachTransformControls(
    [S EXCEPT !.interaction.listeners =
       removeEventListener(
         removeEventListener(@, "mousemove", bind("onMouseMove", "dispose")),
         "click", bind("onClick", "dispose"))])

(* onTransformChange: the matrix written to the selected slot for a gizmo at
   world position `position`. *)
TransformChangeMatrix(position) ==
  MakeTranslation(position[1], position[2], position[3])

(* Interaction.updatePadPosition only logs: the pad store is returned as is. *)
updatePadPosition(store, instanceId, position) == store

TransformChangeApplies(S) ==
  /\ S.interaction.selectedObject # Null
  /\ S.interaction.selectedInstanceId # NoInstance
  /\ S.interaction.transformControls # Null
  /\ S.interaction.selectedObject \in Meshes

----------------------------------------------------------------------------
(* GPU resources and the Serialization resource ledger *)

Geometries ==
  {"rectangularGeometry", "circularGeometry", "rectangularEdgeGeometry",
   "circularEdgeGeometry", "baseGeometry", "holeGeometry", "pcb_board.geometry"}

Materials ==
  {"smd_pads.material", "smd_pad_edges.material", "flat_traces_instanced.material",
   "through_holes.material", "through_hole_edges.material", "pcb_board.material",
   "copperMaterial"}

Textures == {}

Resources == Geometries \cup Materials \cup Textures

MeshGeometry(m) ==
  CASE m = PadMesh      -> "rectangularGeometry"
    [] m = PadEdgeMesh  -> "rectangularEdgeGeometry"
    [] m = TraceMesh    -> "baseGeometry"
    [] m = HoleMesh     -> "holeGeometry"
    [] m = HoleEdgeMesh -> "holeGeometry"
    [] OTHER            -> "pcb_board.geometry"

MeshMaterial(m) ==
  CASE m = PadMesh      -> "smd_pads.material"
    [] m = PadEdgeMesh  -> "smd_pad_edges.material"
    [] m = TraceMesh    -> "flat_traces_instanced.material"
    [] m = HoleMesh     -> "through_holes.material"
    [] m = HoleEdgeMesh -> "through_hole_edges.material"
    [] OTHER            -> "pcb_board.material"

(* An object seen through the TrackableComponent interface: the sets hold the
   value of each optional property (empty when the object has no such
   property). *)
Component(name, instancedMesh, edgeMesh, geometries) ==
  [ name |-> name,
    instancedMesh |-> instancedMesh,
    edgeMesh |-> edgeMesh,
    ownGeometries |-> geometries,
    traceMeshes |-> {},
    geometryCache |-> {} ]

(* The three stores, and the three managers clearBoard passes: a manager keeps
   its store in a field of its own and has none of the tracked properties. *)
Components ==
  { Component("SMDPads", {PadMesh}, {PadEdgeMesh},
              {"rectangularGeometry", "circularGeometry",
               "rectangularEdgeGeometry", "circularEdgeGeometry"}),
    Component("FlatTraces", {TraceMesh}, {}, {}),
    Component("ThroughHoles", {HoleMesh}, {HoleEdgeMesh}, {}),
    Component("SMDPadManager", {}, {}, {}),
    Component("TraceManager", {}, {}, {}),
    Component("ThroughHoleManager", {}, {}, {}) }

ResourceTrackerNew ==
  [geometries |-> {}, materials |-> {}, meshes |-> {}, textures |-> {}]

trackResources(tracker, component) ==
  [tracker EXCEPT
     !.meshes = @ \cup component.instancedMesh \cup component.edgeMesh
                  \cup component.traceMeshes,
     !.geometries = @ \cup component.ownGeometries
                      \cup {MeshGeometry(m) : m \in component.traceMeshes}
                      \cup component.geometryCache,
     !.materials = @ \cup {MeshMaterial(m) : m \in component.instancedMesh}
                     \cup {MeshMaterial(m) : m \in component.edgeMesh}
                     \cup {MeshMaterial(m) : m \in component.traceMeshes}]

(* The dispose() calls one disposeResources() makes on resource r *)
DisposalsOf(tracker, r) ==
  (IF r \in tracker.geometries THEN 1 ELSE 0)
  + (IF r \in tracker.materials THEN 1 ELSE 0)
  + Cardinality({m \in tracker.meshes : MeshGeometry(m) = r})
  + Cardinality({m \in tracker.meshes : MeshMaterial(m) = r})
  + (IF r \in tracker.textures THEN 1 ELSE 0)

(* disposeResources without meshes.clear() *)
disposeResourcesKeepsMeshes(tracker) ==
  [ResourceTrackerNew EXCEPT !.meshes = tracker.meshes]

disposeResources(tracker) == ResourceTrackerNew

getResourceStats(tracker) ==
  [ geometries |-> Cardinality(tracker.geometries),
    materials |-> Cardinality(tracker.materials),
    meshes |-> Cardinality(tracker.meshes),
    textures |-> Cardinality(tracker.textures) ]

----------------------------------------------------------------------------
(* The animation-frame queue, the Engine, the ShaderManager and the viewer *)

BoardMesh == "pcb_board"

(* The meshes the managers and the viewer put into the engine's scene *)
SceneMeshes == Meshes \cup {BoardMesh}

NoFrame == 0

(* requestAnimationFrame: the callback is queued under a fresh id *)
requestAnimationFrame(q, callback) ==
  [q EXCEPT !.pending = @ \cup {[id |-> q.nextId, callback |-> callback]},
            !.nextId = @ + 1]

cancelAnimationFrame(q, id) ==
  [q EXCEPT !.pending = {f \in @ : f.id # id}]

(* Engine.animate, on E = [engine, raf] *)
engineAnimate(E) ==
  IF ~E.engine.isRunning
    THEN E
    ELSE [E EXCEPT !.engine.renders = @ + 1,
                   !.engine.animationId = E.raf.nextId,
                   !.raf = requestAnimationFrame(@, "Engine.animate")]

engineStart(E) ==
  IF E.engine.isRunning
    THEN E
    ELSE engineAnimate([E EXCEPT !.engine.isRunning = TRUE])

engineStop(E) ==
  LET E1 == [E EXCEPT !.engine.isRunning = FALSE]
  IN  IF E1.engine.animationId # NoFrame
        THEN [E1 EXCEPT !.raf = cancelAnimationFrame(@, E1.engine.animationId),
                        !.engine.animationId = NoFrame]
        ELSE E1

(* The Engine after its constructor and the start() call of the viewer *)
EngineNew ==
  engineStart(
    [engine |-> [isRunning |-> FALSE, animationId |-> NoFrame, renders |-> 0,
                 scene |-> SceneMeshes, sceneId |-> 1,
                 controlsDisposed |-> FALSE, rendererDisposed |-> FALSE],
     raf |-> [pending |-> {}, nextId |-> 1]])

(* The animate closure of ShaderManager.startAnimation, on
   M = [shaderManager, raf] *)
shaderAnimate(M) ==
  [M EXCEPT !.shaderManager.uTime = @ + 1,
            !.shaderManager.animationId = M.raf.nextId,
            !.raf = requestAnimationFrame(@, "ShaderManager.animate")]

(* ShaderManager.getInstance() in the SMDPads constructor: the singleton is
   constructed and its loop started. *)
ShaderManagerNew(q) ==
  shaderAnimate([shaderManager |-> [animationId |-> NoFrame, uTime |-> 0],
                 raf |-> q])

(* Scene.dispose: the dispose() calls it makes on resource r, one for the
   geometry and one for the material of every mesh in the scene *)
SceneDisposalsOf(scene, r) ==
  Cardinality({m \in scene : MeshGeometry(m) = r})
  + Cardinality({m \in scene : MeshMaterial(m) = r})

(* Scene.dispose without scene.clear() *)
sceneDisposeKeepsObjects(scene) == scene

sceneDispose(scene) == {}

(* PCBViewer after its effect has run and the start-up timer has fired.  The
   effect returns nothing: the cleanup closure is the return value of the
   timer callback, which the timer discards. *)
ViewerNew ==
  [mounted |-> TRUE, selectionInterval |-> TRUE, effectCleanup |-> Null,
   selectedComponent |-> << >>]

----------------------------------------------------------------------------
(* Board *)

DEFAULT_WIDTH == 10000

DEFAULT_HEIGHT == 8000

(* new Board(width, height, thickness): one BoxGeometry has been made, and
   the two copper-layer objects, children of the board mesh, stand at the
   layer heights; copperPlanes are the meshes added to them, each with its
   position in its layer object. *)
BoardNew ==
  [width |-> DEFAULT_WIDTH, height |-> DEFAULT_HEIGHT,
   geometriesCreated |-> 1, geometriesDisposed |-> 0,
   topCopperLayerY |-> TopCopperZ(DEFAULT_THICKNESS),
   bottomCopperLayerY |-> BottomCopperZ(DEFAULT_THICKNESS),
   copperPlanes |-> << >>]

(* updateDimensions without the dispose of the old geometry *)
updateDimensionsKeepsGeometry(b, width, height, thickness) ==
  [b EXCEPT !.width = width, !.height = height,
            !.geometriesCreated = @ + 1,
            !.topCopperLayerY = TopCopperZ(thickness),
            !.bottomCopperLayerY = BottomCopperZ(thickness)]

(* Board.updateDimensions(width, height, thickness); the thickness goes to the
   CopperLayerManager as well. *)
updateDimensions(b, width, height, thickness) ==
  [b EXCEPT !.width = width, !.height = height,
            !.geometriesCreated = @ + 1,
            !.geometriesDisposed = @ + 1,
            !.topCopperLayerY = TopCopperZ(thickness),
            !.bottomCopperLayerY = BottomCopperZ(thickness)]

(* CopperLayerManager.createCopperPlane through createCopperGeometry: the
   mesh gets the layer height of the thickness the manager holds as its own
   position.y *)
createCopperPlane(width, height, x, z, layer, thickness) ==
  [layer |-> layer, width |-> width, height |-> height,
   position |-> <<x, IF layer = "top" THEN TopCopperZ(thickness)
                                      ELSE BottomCopperZ(thickness), z>>]

(* Board.addCopperPlane: the plane becomes a child of its layer object *)
addCopperPlane(b, layer, width, height, x, z, thickness) ==
  [b EXCEPT !.copperPlanes =
     Append(@, createCopperPlane(width, height, x, z, layer, thickness))]

(* Board.createCopperPour *)
createCopperPour(b, layer, thickness) ==
  addCopperPlane(b, layer, b.width - 200, b.height - 200, 0, 0, thickness)

LiveBoardGeometries(b) == b.geometriesCreated - b.geometriesDisposed

----------------------------------------------------------------------------
(* Serialization: documents, validation, export and import.
   A JSON value is held with its JavaScript type. *)

Num(n) == [t |-> "number", v |-> n]

Str(x) == [t |-> "string", v |-> x]

Arr(a) == [t |-> "array", v |-> a]

Undefined == [t |-> "undefined", v |-> 0]

Vec(a) == Arr([i \in 1..Len(a) |-> Num(a[i])])

(* !x *)
Falsy(x) ==
  \/ x.t = "undefined"
  \/ (x.t = "number" /\ x.v = 0)
  \/ (x.t = "string" /\ x.v = "")

(* Whether ...x can be spread into an argument list *)
Iterable(x) == x.t \in {"array", "string"}

AllNumbers(x) == \A i \in 1..Len(x.v) : x.v[i].t = "number"

Numbers(x) == [i \in 1..Len(x.v) |-> x.v[i].v]

SmdTypes == {"smd_rect", "smd_circle"}

(* The type names of the documents that begin with "smd_" *)
SmdPrefixed == SmdTypes \cup {"smd_oval"}

(* type.startsWith('smd_') on the type names of the documents *)
startsWithSmd(type) == type \in SmdPrefixed

(* type.replace('smd_', '') on the type names of the documents *)
replaceSmd(type) ==
  CASE type = "smd_rect"   -> "rect"
    [] type = "smd_circle" -> "circle"
    [] type = "smd_oval"   -> "oval"
    [] OTHER               -> type

ComponentFields ==
  {"id", "type", "pos", "size", "layer", "rotation", "points", "width", "diameter"}

BlankComponent == [f \in ComponentFields |-> Undefined]

(* validateComponentData without the check of a drill's diameter *)
validateComponentDataAnyDrill(obj) ==
  IF \/ obj.id.t # "string"
     \/ obj.type.t # "string"
     \/ obj.pos.t # "array"
     \/ Len(obj.pos.v) # 3
    THEN FALSE
  ELSE IF ~AllNumbers(obj.pos) THEN FALSE
  ELSE IF startsWithSmd(obj.type.v)
    THEN /\ ~(obj.layer.t # "string" \/ (obj.layer.v # "top" /\ obj.layer.v # "bottom"))
         /\ ~(obj.size.t # "array" \/ Len(obj.size.v) # 2)
         /\ AllNumbers(obj.size)
  ELSE IF obj.type.v = "path"
    THEN /\ ~(obj.layer.t # "string" \/ (obj.layer.v # "top" /\ obj.layer.v # "bottom"))
         /\ obj.width.t = "number"
         /\ ~(obj.points.t # "array" \/ Len(obj.points.v) < 2)
  ELSE obj.type.v = "drill"

validateComponentData(obj) ==
  IF \/ obj.id.t # "string"
     \/ obj.type.t # "string"
     \/ obj.pos.t # "array"
     \/ Len(obj.pos.v) # 3
    THEN FALSE
  ELSE IF ~AllNumbers(obj.pos) THEN FALSE
  ELSE IF startsWithSmd(obj.type.v)
    THEN /\ ~(obj.layer.t # "string" \/ (obj.layer.v # "top" /\ obj.layer.v # "bottom"))
         /\ ~(obj.size.t # "array" \/ Len(obj.size.v) # 2)
         /\ AllNumbers(obj.size)
  ELSE IF obj.type.v = "path"
    THEN /\ ~(obj.layer.t # "string" \/ (obj.layer.v # "top" /\ obj.layer.v # "bottom"))
         /\ obj.width.t = "number"
         /\ ~(obj.points.t # "array" \/ Len(obj.points.v) < 2)
  ELSE IF obj.type.v = "drill"
    THEN obj.diameter.t = "number"
  ELSE FALSE

validateBoardData(data) ==
  IF \/ data.board.width.t # "number"
     \/ data.board.height.t # "number"
     \/ data.board.thickness.t # "number"
    THEN FALSE
  ELSE IF data.components.t # "array" THEN FALSE
  ELSE \A i \in 1..Len(data.components.v) :
         validateComponentData(data.components.v[i])

(* The stores and the board an import works on; `threw` tells whether the
   import ended in an exception. *)
World(pads, traces, holes, b, tracker) ==
  [smdPads |-> pads, flatTraces |-> traces, throughHoles |-> holes,
   board |-> b, resourceTracker |-> tracker, threw |-> FALSE]

importDrill(W, data) ==
  IF data.type.v # "drill" \/ Falsy(data.diameter)
    THEN W
    ELSE [W EXCEPT !.throughHoles =
            addHole(@, data.id.v, data.pos.v[1].v, data.pos.v[3].v,
                    data.diameter.v).store]

importSMDPad(W, data) ==
  IF ~startsWithSmd(data.type.v) \/ Falsy(data.size)
    THEN W
    ELSE LET padData ==
               [id |-> data.id.v,
                type |-> replaceSmd(data.type.v),
                position |-> Numbers(data.pos),
                size |-> Numbers(data.size),
                rotation |-> IF Falsy(data.rotation) THEN 0 ELSE data.rotation.v,
                layer |-> IF Falsy(data.layer) THEN "top" ELSE data.layer.v]
         IN  [W EXCEPT !.smdPads = addPad(@, padData).store]

(* new THREE.Vector2(...p) throws a TypeError when p cannot be spread *)
importFlatTrace(W, data) ==
  IF data.type.v # "path" \/ Falsy(data.points) \/ Falsy(data.width)
    THEN W
  ELSE IF \E i \in 1..Len(data.points.v) : ~Iterable(data.points.v[i])
    THEN [W EXCEPT !.threw = TRUE]
  ELSE LET traceData ==
             [id |-> data.id.v,
              points |-> [i \in 1..Len(data.points.v) |-> Numbers(data.points.v[i])],
              width |-> data.width.v,
              layer |-> IF Falsy(data.layer) THEN "top" ELSE data.layer.v]
       IN  [W EXCEPT !.flatTraces = addTrace(@, traceData).store]

importComponent(W, component) ==
  IF startsWithSmd(component.type.v) THEN importSMDPad(W, component)
  ELSE IF component.type.v = "path" THEN importFlatTrace(W, component)
  ELSE IF component.type.v = "drill" THEN importDrill(W, component)
  ELSE W

(* data.components.forEach(...): an exception ends the loop *)
RECURSIVE importComponentsFrom(_, _, _)
importComponentsFrom(W, components, i) ==
  IF i > Len(components) \/ W.threw
    THEN W
    ELSE importComponentsFrom(importComponent(W, components[i]), components, i + 1)

Manager(name) == CHOOSE c \in Components : c.name = name

clearBoard(W) ==
  [W EXCEPT
     !.resourceTracker =
        trackResources(
          trackResources(
            trackResources(@, Manager("SMDPadManager")),
            Manager("TraceManager")),
          Manager("ThroughHoleManager")),
     !.smdPads = clearPads(@),
     !.flatTraces = clearTraces(@),
     !.throughHoles = clearHoles(@)]

(* importBoard with Board.updateDimensions replaced *)
importBoardKeepsGeometry(W, data) ==
  LET W1 == clearBoard(W)
      W2 == [W1 EXCEPT !.board =
               updateDimensionsKeepsGeometry(@, data.board.width.v,
                                             data.board.height.v,
                                             data.board.thickness.v)]
  IN  importComponentsFrom(W2, data.components.v, 1)

importBoard(W, data) ==
  LET W1 == clearBoard(W)
      W2 == [W1 EXCEPT !.board =
               updateDimensions(@, data.board.width.v, data.board.height.v,
                                data.board.thickness.v)]
  IN  importComponentsFrom(W2, data.components.v, 1)

(* importFromString, and loadBoardFromFile followed by importBoard: the
   document is validated first; a rejected document and an exception of the
   import both end in an error. *)
importValidated(W, data) ==
  IF ~validateBoardData(data)
    THEN [W EXCEPT !.threw = TRUE]
    ELSE importBoard(W, data)

exportPad(pad) ==
  [BlankComponent EXCEPT
     !.id = Str(pad.id),
     !.type = Str("smd_" \o pad.type),
     !.pos = Vec(pad.position),
     !.size = Vec(pad.size),
     !.layer = Str(pad.layer),
     !.rotation = Num(pad.rotation)]

exportTrace(trace) ==
  [BlankComponent EXCEPT
     !.id = Str(trace.id),
     !.type = Str("path"),
     !.pos = Vec(<<0, IF trace.layer = "top" THEN 1 ELSE -1, 0>>),
     !.points = Arr([i \in 1..Len(trace.points) |-> Vec(trace.points[i])]),
     !.width = Num(trace.width),
     !.layer = Str(trace.layer)]

exportHole(hole) ==
  [BlankComponent EXCEPT
     !.id = Str(hole.id),
     !.type = Str("drill"),
     !.pos = Vec(hole.position),
     !.diameter = Num(hole.diameter)]

exportBoard(W, thickness) ==
  [board |-> [width |-> Num(W.board.width), height |-> Num(W.board.height),
              thickness |-> Num(thickness)],
   components |->
     Arr([i \in 1..Len(W.smdPads.padData) |-> exportPad(W.smdPads.padData[i])]
         \o [i \in 1..Len(W.flatTraces.traces) |->
               exportTrace(W.flatTraces.traces[i])]
         \o [i \in 1..Len(W.throughHoles.holeData) |->
               exportHole(W.throughHoles.holeData[i])])]

----------------------------------------------------------------------------
(* The documents offered to the import *)

PadComponent ==
  [BlankComponent EXCEPT
     !.id = Str("p1"), !.type = Str("smd_rect"), !.pos = Vec(<<0, 0, 0>>),
     !.size = Vec(<<200, 200>>), !.layer = Str("top")]

TraceComponent ==
  [BlankComponent EXCEPT
     !.id = Str("t2"), !.type = Str("path"), !.pos = Vec(<<0, -1, 0>>),
     !.points = Arr(<<Vec(<<0, 0>>), Vec(<<0, 6>>)>>),
     !.width = Num(2), !.layer = Str("bottom")]

HoleComponent ==
  [BlankComponent EXCEPT
     !.id = Str("h1"), !.type = Str("drill"), !.pos = Vec(<<1000, 0, -1000>>),
     !.diameter = Num(80)]

(* The values a field of a component is replaced with *)
FieldValues ==
  { Undefined, Num(0), Str("inner"), Vec(<<1, 2>>), Vec(<<1, 2, 3>>),
    Arr(<<Str("a"), Num(2)>>), Arr(<<Str("a"), Num(2), Num(3)>>),
    Arr(<<Vec(<<0, 0>>)>>) }

(* The fields a component of each type is read for *)
FieldsOf(c) ==
  {"id", "type", "pos"} \cup
  (IF startsWithSmd(c.type.v) THEN {"size", "layer", "rotation"}
   ELSE IF c.type.v = "path" THEN {"points", "width", "layer"}
   ELSE {"diameter"})

(* A component and every component that differs from it in one of its
   fields; a rotation is a number or is left out. *)
Variants(c) ==
  {c} \cup
  { [c EXCEPT ![fx[1]] = fx[2]] :
      fx \in { gy \in FieldsOf(c) \X FieldValues :
                 gy[1] = "rotation" => gy[2].t \in {"number", "undefined"} } }

(* The board of the documents: its thickness is the mounted board's, so that
   the copper heights of an import are those of the state it starts in. *)
DocumentBoard ==
  [width |-> Num(1000), height |-> Num(800), thickness |-> Num(DEFAULT_THICKNESS)]

BoardVariants ==
  { DocumentBoard,
    [DocumentBoard EXCEPT !.width = Str("1000")],
    [DocumentBoard EXCEPT !.height = Undefined],
    [DocumentBoard EXCEPT !.thickness = Str("1.6")] }

(* A pad component of a type that begins with "smd_" and names no pad kind *)
OvalComponent == [PadComponent EXCEPT !.type = Str("smd_oval")]

(* A pad "p2" followed by one varied component *)
Documents ==
  { [board |-> DocumentBoard,
     components |-> Arr(<<[PadComponent EXCEPT !.id = Str("p2")], c>>)] :
      c \in Variants(PadComponent) \cup Variants(TraceComponent)
              \cup Variants(HoleComponent) \cup {OvalComponent} }
  \cup { [board |-> b, components |-> Arr(<<PadComponent>>)] : b \in BoardVariants }
  \cup { [board |-> DocumentBoard, components |-> x] :
           x \in {Undefined, Num(0), Str("none"), Arr(<< >>)} }

(* A hole of diameter 0, which ThroughHoles.addHole accepts like any other *)
ZeroDiameterHole == <<"h1", 0, 0, 0>>

----------------------------------------------------------------------------
(* Initial state and the operations as actions *)

Init ==
  /\ boardThickness = DEFAULT_THICKNESS
  /\ smdPads = SMDPadsNew
  /\ flatTraces = FlatTracesNew
  /\ throughHoles = ThroughHolesNew
  /\ lastCall = Call("new", TRUE, 0)
  /\ interaction = InteractionNew
  /\ uniforms = UniformsNew
  /\ resourceTracker = ResourceTrackerNew
  /\ disposeCalls = [r \in Resources |-> 0]
  /\ engine = EngineNew.engine
  /\ raf = ShaderManagerNew(EngineNew.raf).raf
  /\ shaderManager = ShaderManagerNew(EngineNew.raf).shaderManager
  /\ viewer = ViewerNew
  /\ board = BoardNew

AddPadOf(padData) ==
  LET r == addPad(smdPads, padData)
  IN  /\ smdPads' = r.store
      /\ lastCall' = Call("addPad", r.ret, 0)
      /\ UNCHANGED <<engineVars, boardThickness, flatTraces, throughHoles,
                     interactionVars, ledgerVars>>

AddPad == \E padData \in PadInputs : AddPadOf(padData)

AddPadsOf(padsArray) ==
  LET r == addPads(smdPads, padsArray)
  IN  /\ smdPads' = r.store
      /\ lastCall' = Call("addPads", TRUE, r.ret)
      /\ UNCHANGED <<engineVars, boardThickness, flatTraces, throughHoles,
                     interactionVars, ledgerVars>>

AddPads == \E padsArray \in PadLists : AddPadsOf(padsArray)

RemovePadOf(padId) ==
  LET r == removePad(smdPads, padId)
  IN  /\ smdPads' = r.store
      /\ lastCall' = Call("removePad", r.ret, 0)
      /\ UNCHANGED <<engineVars, boardThickness, flatTraces, throughHoles,
                     interactionVars, ledgerVars>>

RemovePad == \E padId \in PadIds : RemovePadOf(padId)

ClearPads ==
  /\ smdPads' = clearPads(smdPads)
  /\ lastCall' = Call("clearPads", TRUE, 0)
  /\ UNCHANGED <<engineVars, boardThickness, flatTraces, throughHoles,
                 interactionVars, ledgerVars>>

AddHoleOf(h) ==
  LET r == addHole(throughHoles, h[1], h[2], h[3], h[4])
  IN  /\ throughHoles' = r.store
      /\ lastCall' = Call("addHole", r.ret, 0)
      /\ UNCHANGED <<engineVars, boardThickness, smdPads, flatTraces,
                     interactionVars, ledgerVars>>

AddHole == \E h \in HoleInputs : AddHoleOf(h)

ClearHoles ==
  /\ throughHoles' = clearHoles(throughHoles)
  /\ lastCall' = Call("clearHoles", TRUE, 0)
  /\ UNCHANGED <<engineVars, boardThickness, smdPads, flatTraces,
                 interactionVars, ledgerVars>>

AddTraceOf(traceData) ==
  LET r == addTrace(flatTraces, traceData)
  IN  /\ flatTraces' = r.store
      /\ lastCall' = Call("addTrace", r.ret, 0)
      /\ UNCHANGED <<engineVars, boardThickness, smdPads, throughHoles,
                     interactionVars, ledgerVars>>

AddTrace == \E traceData \in TraceInputs : AddTraceOf(traceData)

ClearTraces ==
  /\ flatTraces' = clearTraces(flatTraces)
  /\ lastCall' = Call("clearTraces", TRUE, 0)
  /\ UNCHANGED <<engineVars, boardThickness, smdPads, throughHoles,
                 interactionVars, ledgerVars>>

StoreNext ==
  \/ AddPad
  \/ AddPads
  \/ RemovePad
  \/ ClearPads
  \/ AddHole
  \/ ClearHoles

StoreSpec == Init /\ [][StoreNext]_vars

----------------------------------------------------------------------------
(* Claims on the pad and hole stores (StoreSpec) *)

(* C1: capacity.  The instance count of the pad store and of the hole store
   never exceeds the capacity; an add on a full store returns false and leaves
   the store as it was (records, instance count, draw counts, buffers); an add
   on a store that is not full returns true and takes exactly one more slot,
   and with a new id it makes exactly one more live entity, so C+1 adds of
   new entities leave exactly C live ones. *)
C1_Capacity ==
  [][ /\ smdPads'.instanceCount <= PadMaxInstances
      /\ throughHoles'.instanceCount <= HoleMaxInstances
      /\ \A padData \in PadInputs :
           AddPadOf(padData) =>
             IF smdPads.instanceCount >= PadMaxInstances
               THEN /\ lastCall'.ret = FALSE
                    /\ smdPads' = smdPads
               ELSE /\ lastCall'.ret = TRUE
                    /\ smdPads'.instanceCount = smdPads.instanceCount + 1
                    /\ ~Has(smdPads.padData, padData.id) =>
                         Len(smdPads'.padData) = Len(smdPads.padData) + 1
      /\ \A h \in HoleInputs :
           AddHoleOf(h) =>
             IF throughHoles.instanceCount >= HoleMaxInstances
               THEN /\ lastCall'.ret = FALSE
                    /\ throughHoles' = throughHoles
               ELSE /\ lastCall'.ret = TRUE
                    /\ throughHoles'.instanceCount = throughHoles.instanceCount + 1
                    /\ ~Has(throughHoles.holeData, h[1]) =>
                         Len(throughHoles'.holeData) = Len(throughHoles.holeData) + 1
    ]_vars

(* A rejected addPad on a pad store holding C live pads, beside a hole store
   holding C live holes. *)
C1_Witness ==
  /\ lastCall.op = "addPad"
  /\ lastCall.ret = FALSE
  /\ Len(smdPads.padData) = PadMaxInstances
  /\ smdPads.instanceCount = PadMaxInstances
  /\ Len(throughHoles.holeData) = HoleMaxInstances
  /\ throughHoles.instanceCount = HoleMaxInstances

(* C2: dense slots.  The instance count equals the number of live pad records
   and every live pad's transform is the one stored at the slot getInstanceId
   gives for it. *)
C2_DenseSlots ==
  /\ smdPads.instanceCount = Len(smdPads.padData)
  /\ \A i \in 1..Len(smdPads.padData) :
       LET slot == getInstanceId(smdPads, smdPads.padData[i].id)
       IN  /\ slot \in 0..(smdPads.instanceCount - 1)
           /\ smdPads.instanceMatrix[slot] = PadMatrix(smdPads.padData[i])

(* The items of a list that addPad accepts when the list is offered to a
   store with c slots taken: item i meets a store with c + i - 1 slots taken
   as long as every item before it was accepted. *)
Accepted(padsArray, c) ==
  { i \in 1..Len(padsArray) : c + i <= PadMaxInstances }

NewDistinctIds(store, padsArray) ==
  /\ \A i, j \in 1..Len(padsArray) :
       padsArray[i].id = padsArray[j].id => i = j
  /\ \A i \in 1..Len(padsArray) : ~Has(store.padData, padsArray[i].id)

(* C21: addPads returns the number of items addPad accepted, and never
   fails.  For a list of n new distinct ids offered to a store with c of its
   C slots taken, the result is min(n, C - c): the first min(n, C - c) items
   are live afterwards, each at the next slot in list order, every later item
   is absent, and the pads that were live before are still live. *)
C21_AddPadsCount ==
  [][ \A padsArray \in PadLists :
        AddPadsOf(padsArray) =>
          LET c == smdPads.instanceCount
              n == Len(padsArray)
              free == PadMaxInstances - c
              k == IF n <= free THEN n ELSE free
          IN  /\ lastCall'.ret = TRUE
              /\ lastCall'.count = Cardinality(Accepted(padsArray, c))
              /\ lastCall'.count = smdPads'.instanceCount - c
              /\ NewDistinctIds(smdPads, padsArray) =>
                   /\ lastCall'.count = k
                   /\ \A i \in 1..n :
                        IF i <= k
                          THEN /\ getPad(smdPads', padsArray[i].id) = <<padsArray[i]>>
                               /\ smdPads'.instanceMatrix[c + i - 1]
                                    = PadMatrix(padsArray[i])
                          ELSE ~Has(smdPads'.padData, padsArray[i].id)
                   /\ \A j \in 1..Len(smdPads.padData) :
                        getPad(smdPads', smdPads.padData[j].id)
                          = <<smdPads.padData[j]>>
    ]_vars

(* addPads of two new pads on a store with one free slot: the first was
   added, the second rejected, and 1 was returned. *)
C21_Witness ==
  /\ lastCall.op = "addPads"
  /\ lastCall.count = 1
  /\ smdPads.instanceCount = PadMaxInstances
  /\ Len(smdPads.padData) = PadMaxInstances

----------------------------------------------------------------------------
(* The viewer: demo population, the polling tick and the pointer events *)

DemoPads == << CHOOSE p \in PadInputs : p.id = "p1" /\ p.type = "rect",
               CHOOSE p \in PadInputs : p.id = "p2" >>

DemoTrace == CHOOSE t \in TraceInputs : t.id = "t2"

DemoHole == <<"via_2_2", 0, 0, 80>>

DragPositions == { <<300, 0, 400>> }

(* PCBViewer's start-up task: the three initializeDemo calls run in the task
   that constructs the stores, before any pointer event is delivered. *)
InitializeDemo ==
  /\ lastCall.op = "new"
  /\ smdPads' = addPads(smdPads, DemoPads).store
  /\ flatTraces' = addTrace(flatTraces, DemoTrace).store
  /\ throughHoles' =
       addHole(throughHoles, DemoHole[1], DemoHole[2], DemoHole[3], DemoHole[4]).store
  /\ lastCall' = Call("initializeDemo", TRUE, 0)
  /\ UNCHANGED <<engineVars, boardThickness, interactionVars, ledgerVars>>

(* An area n + piQuarters * (pi / 4), in units of (0.01 mm)^2 for pads and
   holes and of mm^2 for traces *)
Area(n, piQuarters) == [n |-> n, piQuarters |-> piQuarters]

(* SMDPadManager.getPadByMesh: pads[instanceId] || null of getAllPads() *)
getPadByMesh(store, instanceId) ==
  IF instanceId + 1 \in 1..Len(store.padData)
    THEN <<store.padData[instanceId + 1]>>
    ELSE << >>

(* SMDPadManager.calculatePadArea *)
calculatePadArea(store, padId) ==
  LET pad == getPad(store, padId)
  IN  IF pad = << >> THEN Area(0, 0)
      ELSE IF pad[1].type = "rect"
        THEN Area(pad[1].size[1] * pad[1].size[2], 0)
        ELSE Area(0, pad[1].size[1] * pad[1].size[1])

(* The inspector part of the polling tick: the selected object's name picks
   the store, the instance id of getHoverInfo() picks the entity; `shown` is
   what the inspector holds when no branch replaces it.  The inspector's
   content is a sequence of one record, or the empty sequence for null. *)
inspect(selected, instanceId, shown) ==
  IF selected # Null /\ instanceId # NoInstance
    THEN IF selected \in {PadMesh, PadEdgeMesh}
           THEN LET pad == getPadByMesh(smdPads, instanceId)
                IN  IF pad # << >>
                      THEN <<[id |-> pad[1].id, type |-> "pad",
                            position |-> pad[1].position,
                            area |-> calculatePadArea(smdPads, pad[1].id)]>>
                      ELSE shown
         ELSE IF selected = TraceMesh
           THEN LET trace == getTraceByMesh(flatTraces, instanceId)
                IN  IF trace # << >>
                      THEN <<[id |-> trace[1].id, type |-> "trace",
                            position |-> <<trace[1].points[1][1], 0,
                                           trace[1].points[1][2]>>,
                            area |-> Area(calculateTraceArea(flatTraces,
                                                             trace[1].id), 0)]>>
                      ELSE shown
         ELSE IF instanceId + 1 \in 1..Len(throughHoles.holeData)
           THEN LET hole == throughHoles.holeData[instanceId + 1]
                IN  <<[id |-> hole.id, type |-> "pad",
                     position |-> hole.position,
                     area |-> Area(0, hole.diameter * hole.diameter)]>>
           ELSE shown
  ELSE IF selected = Null THEN << >>
  ELSE shown

(* The 100 ms polling tick of PCBViewer as Interaction sees it: the meshes it
   is handed.  SelectionInterval is the tick with the inspector it refreshes
   first. *)
SetInteractableObjects ==
  /\ viewer.selectionInterval
  /\ interaction' = [interaction EXCEPT !.interactableObjects = Meshes]
  /\ UNCHANGED <<engineVars, boardThickness, storeVars, uniforms, ledgerVars>>

(* The 100 ms polling tick of PCBViewer: the inspector, then the meshes
   handed to Interaction *)
SelectionInterval ==
  /\ viewer.selectionInterval
  /\ viewer' = [viewer EXCEPT !.selectedComponent =
                  inspect(interaction.selectedObject,
                          interaction.hoveredInstanceId, @)]
  /\ interaction' = [interaction EXCEPT !.interactableObjects = Meshes]
  /\ UNCHANGED <<engine, shaderManager, raf, board, boardThickness, storeVars,
                 uniforms, ledgerVars>>

CurrentS == [interaction |-> interaction, uniforms |-> uniforms]

Becomes(S) ==
  /\ interaction' = S.interaction
  /\ uniforms' = S.uniforms

MouseMoveTo(hit) ==
  /\ Dispatches(interaction.listeners, "mousemove", "onMouseMove")
  /\ Becomes(updateCursor(CurrentS, hit))
  /\ UNCHANGED <<engineVars, boardThickness, storeVars, ledgerVars>>

OnMouseMove == \E hit \in Intersections \cup {NoHit} : MouseMoveTo(hit)

ClickAt(hit) ==
  /\ Dispatches(interaction.listeners, "click", "onClick")
  /\ Becomes(onClick(CurrentS, hit))
  /\ UNCHANGED <<engineVars, boardThickness, storeVars, ledgerVars>>

OnClick == \E hit \in Intersections \cup {NoHit} : ClickAt(hit)

(* One movement sample of the gizmo: the 'change' event of TransformControls
   with the attached object at world position `position`. *)
DragTo(position) ==
  /\ interaction.transformControls # Null
  /\ TransformChangeApplies(CurrentS)
  /\ LET m == interaction.selectedObject
         slot == interaction.selectedInstanceId
         matrix == TransformChangeMatrix(position)
     IN  /\ smdPads' =
               updatePadPosition(
                 IF m = PadMesh
                   THEN [smdPads EXCEPT !.instanceMatrix = SetMatrixAt(@, slot, matrix)]
                   ELSE IF m = PadEdgeMesh
                     THEN [smdPads EXCEPT
                             !.edgeInstanceMatrix = SetMatrixAt(@, slot, matrix)]
                     ELSE smdPads,
                 slot, position)
         /\ flatTraces' =
               IF m = TraceMesh
                 THEN [flatTraces EXCEPT !.instanceMatrix = SetMatrixAt(@, slot, matrix)]
                 ELSE flatTraces
         /\ throughHoles' =
               IF m = HoleMesh
                 THEN [throughHoles EXCEPT
                         !.instanceMatrix = SetMatrixAt(@, slot, matrix)]
                 ELSE IF m = HoleEdgeMesh
                   THEN [throughHoles EXCEPT
                           !.edgeInstanceMatrix = SetMatrixAt(@, slot, matrix)]
                   ELSE throughHoles
  /\ UNCHANGED <<engineVars, boardThickness, lastCall, interactionVars, ledgerVars>>

OnTransformChange == \E position \in DragPositions : DragTo(position)

InteractionDispose ==
  /\ Becomes(interactionDispose(CurrentS))
  /\ UNCHANGED <<engineVars, boardThickness, storeVars, ledgerVars>>

ViewerNext ==
  \/ InitializeDemo
  \/ SetInteractableObjects
  \/ OnMouseMove
  \/ OnClick
  \/ OnTransformChange
  \/ InteractionDispose

ViewerSpec == Init /\ [][ViewerNext]_vars

----------------------------------------------------------------------------
(* Claims on hover, selection and drag (ViewerSpec) *)

HoveredPair == <<interaction.hoveredObject, interaction.hoveredInstanceId>>

SelectedPair == <<interaction.selectedObject, interaction.selectedInstanceId>>

NoPair == <<Null, NoInstance>>

MeshSlots == UNION { {m} \X DOMAIN MeshMatrix(m) : m \in Meshes }

Hits == Intersections \cup {NoHit}

HasHoverUniforms(m) == {"uHovered", "uHoveredInstanceId"} \subseteq DOMAIN uniforms[m]

HasSelectionUniforms(m) ==
  {"uSelected", "uSelectedInstanceId"} \subseteq DOMAIN uniforms[m]

ShownHovered == { ms \in MeshSlots : isInstanceHovered(ms[1], ms[2]) }

ShownSelected == { ms \in MeshSlots : isInstanceSelected(ms[1], ms[2]) }

(* C3: at most one hovered pair.  Interaction holds one hovered pair or none
   (object and instance id are set and cleared together), and at most one
   (mesh, instance) is shown hovered by the shaders, so no two instances of a
   store report the hovered flag at the same time. *)
C3_AtMostOneHovered ==
  /\ (interaction.hoveredObject = Null) <=> (interaction.hoveredInstanceId = NoInstance)
  /\ Cardinality(ShownHovered) <= 1
  /\ \A m \in Meshes :
       HasHoverUniforms(m) /\ uniforms[m].uHovered => interaction.hoveredObject = m

(* A trace segment alone is shown hovered, after a click that selected a pad
   and a pointer move onto the trace. *)
C3_Witness ==
  /\ HoveredPair = <<TraceMesh, 0>>
  /\ ShownHovered = { <<TraceMesh, 0>> }
  /\ interaction.selectedObject = PadMesh
  /\ uniforms[PadMesh].uHoveredInstanceId = -1

(* The hover uniforms of the materials that carry them agree with the hovered
   pair of Interaction. *)
HoverUniformsAgree(ms) ==
  /\ \A m \in ms :
       /\ \A s \in DOMAIN MeshMatrix(m) :
            isInstanceHovered(m, s) <=> HoveredPair = <<m, s>>
       /\ HasHoverUniforms(m) /\ ~uniforms[m].uHovered =>
            uniforms[m].uHoveredInstanceId = -1

AfterMouseMove(hit, ms) ==
  /\ HoverUniformsAgree(ms)'
  /\ hit # NoHit =>
       /\ HoveredPair' = <<hit.object, hit.instanceId>>
       /\ interaction'.cursor = "pointer"
       /\ \A m \in Meshes \ {hit.object} :
            HasHoverUniforms(m) =>
              /\ uniforms'[m].uHovered = FALSE
              /\ uniforms'[m].uHoveredInstanceId = -1
  /\ hit = NoHit =>
       /\ HoveredPair' = NoPair
       /\ interaction'.cursor = "default"
       /\ ShownHovered' = {}
       /\ \A m \in Meshes : HasHoverUniforms(m) => ~uniforms'[m].uHovered

(* C4, as amended: after every pointer move, for each material that carries
   the hover uniforms, the material shows instance s hovered exactly when the
   hovered pair is (its mesh, s), and a material not flagged hovered holds the
   instance id -1; with a hit the hovered pair is the struck pair and every
   other material is reset; with no hit there is no hovered pair and no
   material is flagged hovered. *)
C4_HoverMatchesInteraction ==
  [][ \A hit \in Hits :
        MouseMoveTo(hit) =>
          AfterMouseMove(hit, {m \in Meshes : HasHoverUniforms(m)}) ]_vars

(* A pointer move onto the hole has been handled: the hole material shows the
   hole hovered and the pad material is not flagged. *)
C4_Witness ==
  /\ HoveredPair = <<HoleMesh, 0>>
  /\ isInstanceHovered(HoleMesh, 0)
  /\ interaction.cursor = "pointer"
  /\ ~uniforms[PadMesh].uHovered
  /\ interaction.selectedObject = Null

(* C4 as stated: the same for the material of every instanced mesh. *)
C4_AsStated ==
  [][ \A hit \in Hits : MouseMoveTo(hit) => AfterMouseMove(hit, Meshes) ]_vars

SelectionUniformsAgree(ms) ==
  \A m \in ms :
    /\ \A s \in DOMAIN MeshMatrix(m) :
         isInstanceSelected(m, s) <=> SelectedPair = <<m, s>>
    /\ HasSelectionUniforms(m) /\ ~uniforms[m].uSelected =>
         uniforms[m].uSelectedInstanceId = -1

AtMostOneSelected ==
  /\ (interaction.selectedObject = Null) <=> (interaction.selectedInstanceId = NoInstance)
  /\ Cardinality({ m \in Meshes : HasSelectionUniforms(m) /\ uniforms[m].uSelected }) <= 1
  /\ Cardinality(ShownSelected) <= 1

AffordanceOnlyOnSelection ==
  interaction.transformControls # Null =>
    interaction.transformControls = interaction.selectedObject

AffordanceIffSelected ==
  (interaction.transformControls # Null) <=> (interaction.selectedObject # Null)

AfterClick(hit, ms) ==
  /\ SelectionUniformsAgree(ms)'
  /\ AffordanceIffSelected'
  /\ hit # NoHit =>
       /\ SelectedPair' = <<hit.object, hit.instanceId>>
       /\ interaction'.transformControls = hit.object
       /\ \A m \in Meshes \ {hit.object} :
            HasSelectionUniforms(m) =>
              /\ uniforms'[m].uSelected = FALSE
              /\ uniforms'[m].uSelectedInstanceId = -1
  /\ hit = NoHit =>
       /\ SelectedPair' = NoPair
       /\ interaction'.transformControls = Null
       /\ ShownSelected' = {}

(* C5, as amended: a click with a hit makes the struck pair the selection,
   attaches the affordance to the struck object, flags the struck material if
   it carries the selection uniforms and resets every other material; a click
   with no hit clears the selection and detaches the affordance; after every
   click the affordance is attached exactly when something is selected.  In
   every state at most one pair is selected, at most one material has
   uSelected = true, and an attached affordance is attached to the selected
   object; Interaction.dispose() detaches the affordance and leaves the
   selection and its shader flag as they were. *)
C5_ClickSelects ==
  [][ /\ AtMostOneSelected'
      /\ AffordanceOnlyOnSelection'
      /\ \A hit \in Hits :
           ClickAt(hit) =>
             AfterClick(hit, {m \in Meshes : HasSelectionUniforms(m)})
      /\ InteractionDispose =>
           /\ interaction'.transformControls = Null
           /\ SelectedPair' = SelectedPair
           /\ uniforms' = uniforms ]_vars

(* A click on the trace replaced the selection of a pad that had been dragged:
   the trace is the single selection and carries the affordance. *)
C5_Witness ==
  /\ SelectedPair = <<TraceMesh, 0>>
  /\ ShownSelected = { <<TraceMesh, 0>> }
  /\ interaction.transformControls = TraceMesh
  /\ ~uniforms[PadMesh].uSelected
  /\ \E s \in DOMAIN smdPads.instanceMatrix, position \in DragPositions :
       smdPads.instanceMatrix[s] = TransformChangeMatrix(position)

(* C5 as stated: every struck material is flagged selected, and in every state
   the affordance is attached exactly when something is selected. *)
C5_AsStated ==
  [][ /\ AtMostOneSelected'
      /\ AffordanceIffSelected'
      /\ \A hit \in Hits : ClickAt(hit) => AfterClick(hit, Meshes) ]_vars

(* C6: after a drag sample on a selected pad or hole instance, the record of
   the entity at that slot holds the position written to the instance buffer
   (its coordinates in the board plane). *)
C6_DragReachesRecord ==
  [][ \A position \in DragPositions :
        DragTo(position) =>
          LET slot == interaction.selectedInstanceId
          IN  /\ interaction.selectedObject = PadMesh /\ slot < Len(smdPads.padData) =>
                   /\ smdPads'.padData[slot + 1].position[1]
                        = smdPads'.instanceMatrix[slot].pos[1]
                   /\ smdPads'.padData[slot + 1].position[3]
                        = smdPads'.instanceMatrix[slot].pos[3]
              /\ interaction.selectedObject = HoleMesh
                   /\ slot < Len(throughHoles.holeData) =>
                   /\ throughHoles'.holeData[slot + 1].position[1]
                        = throughHoles'.instanceMatrix[slot].pos[1]
                   /\ throughHoles'.holeData[slot + 1].position[3]
                        = throughHoles'.instanceMatrix[slot].pos[3] ]_vars

(* C7: a drag sample writes to the selected slot a transform with the new
   position and the rotation and scale the slot had, and changes no other
   slot of any mesh. *)
C7_DragKeepsRotationScale ==
  [][ \A position \in DragPositions :
        DragTo(position) =>
          \A ms \in MeshSlots :
            MeshMatrix(ms[1])'[ms[2]] =
              IF ms = SelectedPair
                THEN [pos |-> position,
                      rot |-> MeshMatrix(ms[1])[ms[2]].rot,
                      scale |-> MeshMatrix(ms[1])[ms[2]].scale]
                ELSE MeshMatrix(ms[1])[ms[2]] ]_vars

SelectionState ==
  << SelectedPair, interaction.transformControls,
     [m \in Meshes |->
        IF HasSelectionUniforms(m)
          THEN <<uniforms[m].uSelected, uniforms[m].uSelectedInstanceId>>
          ELSE << >>] >>

HoverState ==
  << HoveredPair,
     [m \in Meshes |->
        IF HasHoverUniforms(m)
          THEN <<uniforms[m].uHovered, uniforms[m].uHoveredInstanceId>>
          ELSE << >>] >>

(* C8: hover and selection are independent.  A pointer move leaves the
   selected pair, the affordance and every uSelected/uSelectedInstanceId
   uniform as they were; a click leaves the hovered pair and every
   uHovered/uHoveredInstanceId uniform as they were. *)
C8_HoverSelectionIndependent ==
  [][ /\ \A hit \in Hits : MouseMoveTo(hit) => SelectionState' = SelectionState
      /\ \A hit \in Hits : ClickAt(hit) => HoverState' = HoverState ]_vars

(* One pad is shown hovered while another pad of the same store is shown
   selected. *)
C8_Witness ==
  /\ HoveredPair = <<PadMesh, 0>>
  /\ SelectedPair = <<PadMesh, 1>>
  /\ isInstanceHovered(PadMesh, 0)
  /\ isInstanceSelected(PadMesh, 1)

----------------------------------------------------------------------------
(* The ledger operations *)

TrackResources ==
  \E component \in Components :
    /\ resourceTracker' = trackResources(resourceTracker, component)
    /\ lastCall' = Call("trackResources", TRUE, 0)
    /\ UNCHANGED <<engineVars, boardThickness, smdPads, flatTraces, throughHoles,
                   interactionVars, disposeCalls>>

DisposeResources ==
  /\ \A r \in Resources :
       disposeCalls[r] + DisposalsOf(resourceTracker, r) <= MaxDisposeCalls
  /\ disposeCalls' =
       [r \in Resources |-> disposeCalls[r] + DisposalsOf(resourceTracker, r)]
  /\ resourceTracker' = disposeResources(resourceTracker)
  /\ lastCall' = [Call("disposeResources", TRUE, 0) EXCEPT
                    !.repeated = (lastCall.op = "disposeResources")]
  /\ UNCHANGED <<engineVars, boardThickness, smdPads, flatTraces, throughHoles, interactionVars>>

LedgerNext ==
  \/ TrackResources
  \/ DisposeResources

LedgerSpec == Init /\ [][LedgerNext]_vars

----------------------------------------------------------------------------
(* The engine's life: animation frames, start/stop, dispose, unmount *)

CurrentE == [engine |-> engine, raf |-> raf]

CurrentM == [shaderManager |-> shaderManager, raf |-> raf]

(* The browser runs a queued frame of the engine's loop *)
EngineFrame ==
  \E f \in raf.pending :
    /\ f.callback = "Engine.animate"
    /\ raf.nextId <= MaxFrames
    /\ LET E == engineAnimate([CurrentE EXCEPT !.raf.pending = @ \ {f}])
       IN  /\ engine' = E.engine
           /\ raf' = E.raf
    /\ UNCHANGED <<board, boardThickness, storeVars, interactionVars, ledgerVars,
                   shaderManager, viewer>>

(* The browser runs a queued frame of the shader manager's loop *)
ShaderFrame ==
  \E f \in raf.pending :
    /\ f.callback = "ShaderManager.animate"
    /\ raf.nextId <= MaxFrames
    /\ LET M == shaderAnimate([CurrentM EXCEPT !.raf.pending = @ \ {f}])
       IN  /\ shaderManager' = M.shaderManager
           /\ raf' = M.raf
    /\ UNCHANGED <<board, boardThickness, storeVars, interactionVars, ledgerVars,
                   engine, viewer>>

EngineStart ==
  /\ raf.nextId <= MaxFrames
  /\ LET E == engineStart(CurrentE)
     IN  /\ engine' = E.engine
         /\ raf' = E.raf
  /\ lastCall' = Call("Engine.start", TRUE, 0)
  /\ UNCHANGED <<board, boardThickness, smdPads, flatTraces, throughHoles,
                 interactionVars, ledgerVars, shaderManager, viewer>>

EngineStop ==
  /\ LET E == engineStop(CurrentE)
     IN  /\ engine' = E.engine
         /\ raf' = E.raf
  /\ lastCall' = Call("Engine.stop", TRUE, 0)
  /\ UNCHANGED <<board, boardThickness, smdPads, flatTraces, throughHoles,
                 interactionVars, ledgerVars, shaderManager, viewer>>

CurrentW ==
  [engine |-> engine, raf |-> raf, interaction |-> interaction,
   uniforms |-> uniforms, disposeCalls |-> disposeCalls]

(* Engine.dispose(): stop(), interaction.dispose(), camera.dispose(),
   scene.dispose(), renderer.dispose(). *)
engineDispose(W) ==
  LET E == engineStop([engine |-> W.engine, raf |-> W.raf])
      S == interactionDispose([interaction |-> W.interaction,
                               uniforms |-> W.uniforms])
  IN  [engine |-> [E.engine EXCEPT !.controlsDisposed = TRUE,
                                   !.scene = sceneDispose(@),
                                   !.rendererDisposed = TRUE],
       raf |-> E.raf,
       interaction |-> S.interaction,
       uniforms |-> S.uniforms,
       disposeCalls |->
         [r \in Resources |->
            W.disposeCalls[r] + SceneDisposalsOf(W.engine.scene, r)]]

EngineDisposeRuns ==
  /\ \A r \in Resources :
       disposeCalls[r] + SceneDisposalsOf(engine.scene, r) <= MaxDisposeCalls
  /\ LET W == engineDispose(CurrentW)
     IN  /\ engine' = W.engine
         /\ raf' = W.raf
         /\ interaction' = W.interaction
         /\ uniforms' = W.uniforms
         /\ disposeCalls' = W.disposeCalls

EngineDispose ==
  /\ EngineDisposeRuns
  /\ lastCall' = [Call("Engine.dispose", TRUE, 0) EXCEPT
                    !.repeated = (lastCall.op = "Engine.dispose")]
  /\ UNCHANGED <<board, boardThickness, smdPads, flatTraces, throughHoles,
                 resourceTracker, shaderManager, viewer>>

(* React unmounts the component: it calls the cleanup the effect returned,
   if the effect returned one. *)
Unmount ==
  /\ viewer.mounted
  /\ IF viewer.effectCleanup = Null
       THEN /\ viewer' = [viewer EXCEPT !.mounted = FALSE]
            /\ UNCHANGED <<engine, raf, interactionVars, disposeCalls>>
       ELSE /\ viewer' = [viewer EXCEPT !.mounted = FALSE,
                                        !.selectionInterval = FALSE]
            /\ EngineDisposeRuns
  /\ lastCall' = Call("unmount", TRUE, 0)
  /\ UNCHANGED <<board, boardThickness, smdPads, flatTraces, throughHoles,
                 resourceTracker, shaderManager>>

EngineNext ==
  \/ InitializeDemo
  \/ SetInteractableObjects
  \/ OnMouseMove
  \/ OnClick
  \/ EngineFrame
  \/ ShaderFrame
  \/ EngineStart
  \/ EngineStop
  \/ EngineDispose
  \/ Unmount

EngineSpec == Init /\ [][EngineNext]_vars

(* The browser runs every queued frame; nothing obliges anyone to call the
   engine's methods. *)
FairEngineSpec ==
  /\ EngineSpec
  /\ WF_vars(EngineFrame)
  /\ WF_vars(ShaderFrame)
  /\ WF_vars(SetInteractableObjects)

----------------------------------------------------------------------------
(* Lookups and updates of single pads *)

(* The pads offered to addPad here: "p1" and "p2"; "p3" is never added *)
SinglePadInputs == {p \in PadInputs : p.id = "p2" \/ (p.id = "p1" /\ p.type = "rect")}

AddSinglePad == \E padData \in SinglePadInputs : AddPadOf(padData)

(* The position and the size pads are updated to: those of "p2" *)
NewPositions == { <<600, 0, 300>> }

NewSizes == { <<100, 100>> }

GetPadOf(padId) ==
  /\ lastCall' = Call("getPad", getPad(smdPads, padId) # << >>, 0)
  /\ UNCHANGED <<engineVars, boardThickness, smdPads, flatTraces, throughHoles,
                 interactionVars, ledgerVars>>

GetPad == \E padId \in PadIds : GetPadOf(padId)

UpdatePadPositionOf(padId) ==
  \E newPosition \in NewPositions :
    LET r == SMDPads_updatePadPosition(smdPads, padId, newPosition)
    IN  /\ smdPads' = r.store
        /\ lastCall' = Call("updatePadPosition", r.ret, 0)
        /\ UNCHANGED <<engineVars, boardThickness, flatTraces, throughHoles,
                       interactionVars, ledgerVars>>

UpdatePadPosition == \E padId \in PadIds : UpdatePadPositionOf(padId)

UpdatePadSizeOf(padId) ==
  \E newSize \in NewSizes :
    LET r == updatePadSize(smdPads, padId, newSize)
    IN  /\ smdPads' = r.store
        /\ lastCall' = Call("updatePadSize", r.ret, 0)
        /\ UNCHANGED <<engineVars, boardThickness, flatTraces, throughHoles,
                       interactionVars, ledgerVars>>

UpdatePadSize == \E padId \in PadIds : UpdatePadSizeOf(padId)

SetPadHoveredOf(padId) ==
  \E hovered \in BOOLEAN :
    LET r == setPadHovered(smdPads, uniforms, padId, hovered)
    IN  /\ uniforms' = r.uniforms
        /\ lastCall' = Call("setPadHovered", r.ret, 0)
        /\ UNCHANGED <<engineVars, boardThickness, smdPads, flatTraces,
                       throughHoles, interaction, ledgerVars>>

SetPadHovered == \E padId \in PadIds : SetPadHoveredOf(padId)

SetPadSelectedOf(padId) ==
  \E selected \in BOOLEAN :
    LET r == setPadSelected(smdPads, uniforms, padId, selected)
    IN  /\ uniforms' = r.uniforms
        /\ lastCall' = Call("setPadSelected", r.ret, 0)
        /\ UNCHANGED <<engineVars, boardThickness, smdPads, flatTraces,
                       throughHoles, interaction, ledgerVars>>

SetPadSelected == \E padId \in PadIds : SetPadSelectedOf(padId)

PadNext ==
  \/ AddSinglePad
  \/ RemovePad
  \/ GetPad
  \/ UpdatePadPosition
  \/ UpdatePadSize
  \/ SetPadHovered
  \/ SetPadSelected

PadSpec == Init /\ [][PadNext]_vars

----------------------------------------------------------------------------
(* Claims on single pads (PadSpec) *)

PositionOf(padData, padId) == CHOOSE j \in 1..Len(padData) : padData[j].id = padId

(* C19: removePad on a live id deletes that pad's record and no other, keeps
   the order of the remaining k pads, gives them the slots 0..k-1, each slot
   of the main and of the edge mesh rewritten from its pad's record, and
   leaves the instance count and both draw counts at k. *)
C19_RemoveRebuildsDense ==
  [][\A padId \in Keys(smdPads.padData) :
       RemovePadOf(padId) =>
         LET before == smdPads.padData
             after == smdPads'.padData
             k == Len(before) - 1
             removed == PositionOf(before, padId)
         IN  /\ lastCall'.ret
             /\ Len(after) = k
             /\ \A i \in 1..k :
                  /\ after[i] = before[IF i < removed THEN i ELSE i + 1]
                  /\ smdPads'.instanceMatrix[i - 1] = PadMatrix(after[i])
                  /\ smdPads'.edgeInstanceMatrix[i - 1] = PadMatrix(after[i])
             /\ smdPads'.instanceCount = k
             /\ smdPads'.instancedMeshCount = k
             /\ smdPads'.edgeMeshCount = k]_vars

(* A pad has been removed and one pad remains, in slot 0 *)
C19_Witness ==
  /\ lastCall.op = "removePad"
  /\ lastCall.ret
  /\ Len(smdPads.padData) = 1
  /\ smdPads.instanceCount = 1

(* C20: on an id that is not in the pad store, getPad finds nothing, and
   removePad, updatePadPosition, updatePadSize, setPadHovered and
   setPadSelected return false and leave the records, the instance count, the
   instance buffers, the draw counts and the uniforms as they are. *)
C20_AbsentIdNoOp ==
  [][\A padId \in PadIds \ Keys(smdPads.padData) :
       (\/ GetPadOf(padId)
        \/ RemovePadOf(padId)
        \/ UpdatePadPositionOf(padId)
        \/ UpdatePadSizeOf(padId)
        \/ SetPadHoveredOf(padId)
        \/ SetPadSelectedOf(padId)) =>
         /\ ~lastCall'.ret
         /\ UNCHANGED <<smdPads, uniforms>>]_vars

(* A call on an absent id has returned false while the store holds a pad that
   is flagged hovered *)
C20_Witness ==
  /\ lastCall.op \in {"removePad", "updatePadPosition", "updatePadSize",
                      "setPadHovered", "setPadSelected"}
  /\ ~lastCall.ret
  /\ Len(smdPads.padData) > 0
  /\ uniforms[PadMesh].uHovered

----------------------------------------------------------------------------
(* Import and export *)

CurrentWorld == World(smdPads, flatTraces, throughHoles, board, resourceTracker)

WorldBecomes(W) ==
  /\ smdPads' = W.smdPads
  /\ flatTraces' = W.flatTraces
  /\ throughHoles' = W.throughHoles
  /\ board' = W.board
  /\ resourceTracker' = W.resourceTracker

(* One import of `data` through the entry point `op` *)
ImportOf(op, data) ==
  /\ board.geometriesCreated <= MaxImports
  /\ LET W == importValidated(CurrentWorld, data)
     IN  /\ WorldBecomes(W)
         /\ lastCall' = Call(op, ~W.threw, 0)
  /\ boardThickness' =
       IF validateBoardData(data) THEN data.board.thickness.v ELSE boardThickness
  /\ UNCHANGED <<engine, shaderManager, raf, viewer, interactionVars, disposeCalls>>

ImportFromString == \E data \in Documents : ImportOf("importFromString", data)

LoadBoardFromFile == \E data \in Documents : ImportOf("loadBoardFromFile", data)

(* exportBoard, then importBoard of the exported document *)
ExportImport ==
  /\ board.geometriesCreated <= MaxImports
  /\ LET data == exportBoard(CurrentWorld, boardThickness)
         W == importBoard(CurrentWorld, data)
     IN  /\ WorldBecomes(W)
         /\ lastCall' = Call("exportImport", ~W.threw, 0)
         /\ boardThickness' = data.board.thickness.v
  /\ UNCHANGED <<engine, shaderManager, raf, viewer, interactionVars, disposeCalls>>

AddZeroDiameterHole == AddHoleOf(ZeroDiameterHole)

ImportNext ==
  \/ AddZeroDiameterHole
  \/ ImportFromString
  \/ LoadBoardFromFile
  \/ ExportImport

ImportSpec == Init /\ [][ImportNext]_vars

----------------------------------------------------------------------------
(* Claims on import and export (ImportSpec) *)

Import == ImportFromString \/ LoadBoardFromFile

Failed == ~lastCall.ret

(* C14: an import that ends in an error has touched nothing: the pad, trace
   and hole stores and the board's dimensions are as before the attempt. *)
C14_FailedImportTouchesNothing ==
  [][(Import /\ Failed') =>
       UNCHANGED <<smdPads, flatTraces, throughHoles, board, boardThickness>>]_vars

IsNumber(x) == x.t = "number"

IsLayer(x) == x.t = "string" /\ x.v \in {"top", "bottom"}

NumbersOfLength(x, n) ==
  /\ x.t = "array"
  /\ Len(x.v) = n
  /\ \A i \in 1..n : IsNumber(x.v[i])

ComponentAsRequired(c) ==
  /\ c.id.t = "string"
  /\ c.type.t = "string"
  /\ NumbersOfLength(c.pos, 3)
  /\ c.type.v \in SmdPrefixed => IsLayer(c.layer) /\ NumbersOfLength(c.size, 2)
  /\ c.type.v = "path" =>
       /\ IsLayer(c.layer)
       /\ IsNumber(c.width)
       /\ c.points.t = "array"
       /\ Len(c.points.v) >= 2
  /\ c.type.v = "drill" => IsNumber(c.diameter)

DocumentAsRequired(data) ==
  /\ IsNumber(data.board.width)
  /\ IsNumber(data.board.height)
  /\ IsNumber(data.board.thickness)
  /\ data.components.t = "array"
  /\ \A i \in 1..Len(data.components.v) : ComponentAsRequired(data.components.v[i])

(* The documents that lack something of what is required *)
IllFormedDocuments == {data \in Documents : ~DocumentAsRequired(data)}

(* C15: validateBoardData accepts a document only if the board's width,
   height and thickness are numbers, components is an array, and every
   component has a string id, a string type, a pos of exactly 3 numbers and
   what its type requires (smd_*: layer top or bottom, size of exactly 2
   numbers; path: layer top or bottom, numeric width, at least 2 points;
   drill: numeric diameter).  A document that lacks any of it, be it in one
   component only, is rejected as a whole: in every reachable state its import
   fails and changes neither a store nor the board. *)
C15_AcceptedOnlyIfWellFormed ==
  /\ \A data \in Documents : validateBoardData(data) => DocumentAsRequired(data)
  /\ \A data \in IllFormedDocuments :
       importValidated(CurrentWorld, data) = [CurrentWorld EXCEPT !.threw = TRUE]

(* An accepted document has been imported, the pad "p2" and a second pad, and
   there are documents to reject *)
C15_Witness ==
  /\ lastCall.op = "importFromString"
  /\ lastCall.ret
  /\ Len(smdPads.padData) = 2
  /\ board.width = DocumentBoard.width.v
  /\ Cardinality(IllFormedDocuments) > 0

CarriedHoles(store) ==
  [i \in 1..Len(store.holeData) |->
     [id |-> store.holeData[i].id, position |-> store.holeData[i].position,
      diameter |-> store.holeData[i].diameter]]

(* C16: exporting the stores and importing the exported document gives back
   the same pads, traces and holes, in the same order, on the fields the
   document carries. *)
C16_RoundTrip ==
  [][ExportImport =>
       /\ smdPads'.padData = smdPads.padData
       /\ flatTraces'.traces = flatTraces.traces
       /\ CarriedHoles(throughHoles') = CarriedHoles(throughHoles)]_vars

(* The GPU resources that have been created and not disposed *)
LiveResources ==
  Cardinality({r \in Resources \ {"pcb_board.geometry"} : disposeCalls[r] = 0})
  + LiveBoardGeometries(board)

LedgerSize ==
  getResourceStats(resourceTracker).geometries
  + getResourceStats(resourceTracker).materials
  + getResourceStats(resourceTracker).meshes
  + getResourceStats(resourceTracker).textures

(* C17: however many imports have run, the live GPU resources number at most
   the resources made at construction, and the ledger holds no more entries
   than there are resources and meshes. *)
C17_BoundedAcrossCycles ==
  /\ LiveResources <= Cardinality(Resources)
  /\ LedgerSize <= Cardinality(Resources) + Cardinality(SceneMeshes)

(* As many imports as the bound allows have run, a clearing one among them *)
C17_Witness ==
  /\ board.geometriesCreated = MaxImports + 1
  /\ Len(smdPads.padData) = 0
  /\ lastCall.ret

----------------------------------------------------------------------------
(* Claims on the engine's life (EngineSpec) *)

Disposed == engine.rendererDisposed

(* C11: once Engine.dispose() has returned, no animation-frame callback is
   queued, and from then on no frame of the shader manager's loop advances the
   shader clock. *)
C11_NoFrameAfterDispose ==
  [][/\ EngineDispose => raf'.pending = {}
     /\ Disposed => shaderManager'.uTime = shaderManager.uTime]_vars

(* C12: a second Engine.dispose() has no effect.  In every reachable state,
   disposing twice in a row gives the state one dispose gives: the same engine
   fields, the same frame queue, the same dispose count of every geometry and
   material, the same interaction state and uniforms; and a dispose step on a
   disposed engine whose loop was not restarted leaves the engine, the queue
   and every dispose count as they are. *)
C12_DisposeTwice ==
  [][/\ engineDispose(engineDispose(CurrentW)) = engineDispose(CurrentW)
     /\ (EngineDispose /\ lastCall.op = "Engine.dispose") =>
          /\ lastCall'.repeated
          /\ UNCHANGED <<engine, raf, disposeCalls, uniforms, shaderManager>>]_vars

(* C13: Interaction.dispose() leaves no listener of Interaction registered on
   the canvas, and once the engine is disposed a mousemove or click changes
   neither the hovered pair, the selected pair, a uniform, the cursor nor the
   drag affordance. *)
C13_EventsIgnoredAfterDispose ==
  [][/\ EngineDispose => interaction'.listeners = {}
     /\ (Disposed /\ (OnMouseMove \/ OnClick)) =>
          /\ HoveredPair' = HoveredPair
          /\ SelectedPair' = SelectedPair
          /\ uniforms' = uniforms
          /\ interaction'.cursor = interaction.cursor
          /\ interaction'.transformControls = interaction.transformControls]_vars

(* C18: once the viewer is unmounted, the polling interval gets cancelled, the
   engine gets disposed and every geometry and material that was created gets
   its dispose() call. *)
C18_UnmountDisposesAll ==
  (~viewer.mounted) ~>
    (/\ ~viewer.selectionInterval
     /\ Disposed
     /\ \A r \in Resources : disposeCalls[r] > 0)

(* A second dispose in a row, after a first one that stopped a running loop,
   detached the gizmo and disposed the scene's geometries and materials. *)
C12_Witness ==
  /\ lastCall.op = "Engine.dispose"
  /\ lastCall.repeated
  /\ Disposed
  /\ \E r \in Resources : disposeCalls[r] > 0

----------------------------------------------------------------------------
(* Claims on the resource ledger (LedgerSpec) *)

Tracked(tracker) == tracker.geometries \cup tracker.materials \cup tracker.textures

LedgerEmpty(tracker) ==
  /\ tracker.geometries = {}
  /\ tracker.materials = {}
  /\ tracker.meshes = {}
  /\ tracker.textures = {}

(* C9: disposeResources() calls dispose exactly once on each tracked geometry,
   material and texture, on no other resource, and leaves every ledger
   category empty. *)
C9_DisposeExactlyOnce ==
  [][ DisposeResources =>
        /\ \A r \in Resources :
             disposeCalls'[r] =
               disposeCalls[r] + (IF r \in Tracked(resourceTracker) THEN 1 ELSE 0)
        /\ LedgerEmpty(resourceTracker') ]_vars

(* C10: disposeResources() leaves all four ledger categories empty with
   getResourceStats all zero; on an empty ledger it disposes nothing; a second
   call right after a first one disposes nothing and changes nothing. *)
C10_DisposeIdempotent ==
  [][ DisposeResources =>
        /\ LedgerEmpty(resourceTracker')
        /\ getResourceStats(resourceTracker') =
             [geometries |-> 0, materials |-> 0, meshes |-> 0, textures |-> 0]
        /\ LedgerEmpty(resourceTracker) => disposeCalls' = disposeCalls
        /\ lastCall.op = "disposeResources" =>
             /\ resourceTracker' = resourceTracker
             /\ disposeCalls' = disposeCalls ]_vars

(* A second disposeResources() in a row, after a first one that disposed
   tracked resources. *)
C10_Witness ==
  /\ lastCall.op = "disposeResources"
  /\ lastCall.repeated
  /\ LedgerEmpty(resourceTracker)
  /\ \E r \in Resources : disposeCalls[r] > 0

(* C23: updatePadPosition and updatePadSize on a live id return true and
   change that pad's record (its position, or its size, and nothing else of
   it) and the transform stored at that pad's slot, which becomes the one of
   the changed record; the instance count, the draw counts, the slot of every
   pad, the record of every other pad and the transform at every other slot
   are unchanged. *)
C23_UpdateInPlace ==
  [][\A padId \in Keys(smdPads.padData) :
       (UpdatePadPositionOf(padId) \/ UpdatePadSizeOf(padId)) =>
         LET slot == getInstanceId(smdPads, padId)
             k == PositionOf(smdPads.padData, padId)
         IN  /\ lastCall'.ret
             /\ smdPads'.instanceCount = smdPads.instanceCount
             /\ smdPads'.instancedMeshCount = smdPads.instancedMeshCount
             /\ smdPads'.edgeMeshCount = smdPads.edgeMeshCount
             /\ smdPads'.edgeInstanceMatrix = smdPads.edgeInstanceMatrix
             /\ Len(smdPads'.padData) = Len(smdPads.padData)
             /\ \A i \in 1..Len(smdPads.padData) :
                  /\ getInstanceId(smdPads', smdPads.padData[i].id) = i - 1
                  /\ i # k => smdPads'.padData[i] = smdPads.padData[i]
             /\ UpdatePadPositionOf(padId) =>
                  \E newPosition \in NewPositions :
                    smdPads'.padData[k] =
                      [smdPads.padData[k] EXCEPT !.position = newPosition]
             /\ UpdatePadSizeOf(padId) =>
                  \E newSize \in NewSizes :
                    smdPads'.padData[k] =
                      [smdPads.padData[k] EXCEPT !.size = newSize]
             /\ smdPads'.instanceMatrix[slot] = PadMatrix(smdPads'.padData[k])
             /\ \A other \in (DOMAIN smdPads.instanceMatrix) \ {slot} :
                  smdPads'.instanceMatrix[other] = smdPads.instanceMatrix[other]
    ]_vars

(* The first of two live pads has been moved: its record and slot 0 hold the
   new position, the second pad is where it was. *)
C23_Witness ==
  /\ lastCall.op = "updatePadPosition"
  /\ lastCall.ret
  /\ Len(smdPads.padData) = 2
  /\ smdPads.padData[1].id = "p1"
  /\ smdPads.padData[1].position = <<600, 0, 300>>
  /\ smdPads.instanceMatrix[0].pos[1] = 600
  /\ smdPads.instanceMatrix[1] = PadMatrix(smdPads.padData[2])

----------------------------------------------------------------------------
(* The trace store on its own: addTrace and clear (TraceSpec) *)

TraceNext ==
  \/ AddTrace
  \/ ClearTraces

TraceSpec == Init /\ [][TraceNext]_vars

(* What clear() is to leave behind in each store *)
PadsCleared ==
  /\ smdPads'.padData = << >>
  /\ smdPads'.instanceCount = 0
  /\ smdPads'.instancedMeshCount = 0
  /\ smdPads'.edgeMeshCount = 0
  /\ \A padData \in PadInputs :
       addPad(smdPads', padData).store.instanceMatrix[0] = PadMatrix(padData)
  /\ disposeCalls' = disposeCalls

TracesCleared ==
  /\ flatTraces'.traces = << >>
  /\ flatTraces'.traceSegments = << >>
  /\ flatTraces'.instanceCount = 0
  /\ flatTraces'.instancedMeshCount = 0
  /\ \A traceData \in TraceInputs :
       LET segments == segmentsOf(addTrace(flatTraces', traceData).store,
                                  traceData.id)
       IN  segments # << >> => segments[1].instanceId = 0
  /\ disposeCalls' = disposeCalls

HolesCleared ==
  /\ throughHoles'.holeData = << >>
  /\ throughHoles'.instanceCount = 0
  /\ throughHoles'.instancedMeshCount = 0
  /\ throughHoles'.edgeMeshCount = 0
  /\ \A h \in HoleInputs :
       addHole(throughHoles', h[1], h[2], h[3], h[4]).store.instanceMatrix[0]
         = HoleMatrix([id |-> h[1], position |-> <<h[2], 0, h[3]>>,
                       diameter |-> h[4],
                       depth |-> boardThickness + HOLE_EXTRA_DEPTH])
  /\ disposeCalls' = disposeCalls

(* C22: after clear() on the pad, trace or hole store no entity is live, the
   instance count is 0, the main mesh and the edge mesh of the store draw 0
   instances, the next add is assigned slot 0, and nothing was disposed. *)
C22_ClearEmptiesStore ==
  [][ /\ ClearPads => PadsCleared
      /\ ClearTraces => TracesCleared
      /\ ClearHoles => HolesCleared ]_vars

(* The pad and trace parts of C22 alone *)
ClearEmptiesPadsAndTraces ==
  [][ /\ ClearPads => PadsCleared
      /\ ClearTraces => TracesCleared ]_vars

----------------------------------------------------------------------------
(* Claims on the trace store (TraceSpec) *)

(* The number of segments a polyline needs: one per consecutive waypoint pair *)
Needed(traceData) ==
  IF Len(traceData.points) < 2 THEN 0 ELSE Len(traceData.points) - 1

FreeSlots(store) == TraceMaxInstances - store.instanceCount

(* Segment i of the stored trace is the one of waypoint pair i, at slot
   first + i - 1, and that slot of the buffer holds its transform. *)
SegmentAt(store, traceData, i, first) ==
  LET segment == segmentsOf(store, traceData.id)[i]
  IN  /\ segment.startPoint = traceData.points[i]
      /\ segment.endPoint = traceData.points[i + 1]
      /\ segment.width = traceData.width
      /\ segment.instanceId = first + i - 1
      /\ store.instanceMatrix[first + i - 1] =
           SegmentMatrix(traceData, traceData.points[i], traceData.points[i + 1],
                         segment.length, segment.angle)

(* C24: addTrace of a polyline with N waypoints on a store with at least
   N-1 free slots stores exactly N-1 segments, segment i being the one of
   waypoints i and i+1 at the i-th slot after the slots already taken; a
   polyline with fewer than 2 waypoints stores no segment and takes no
   slot. *)
C24_OneSegmentPerPair ==
  [][\A traceData \in TraceInputs :
       (AddTraceOf(traceData) /\ Needed(traceData) <= FreeSlots(flatTraces)) =>
         LET c == flatTraces.instanceCount
             segments == segmentsOf(flatTraces', traceData.id)
         IN  /\ Len(segments) = Needed(traceData)
             /\ flatTraces'.instanceCount = c + Needed(traceData)
             /\ flatTraces'.instancedMeshCount = c + Needed(traceData)
             /\ \A i \in 1..Needed(traceData) :
                  SegmentAt(flatTraces', traceData, i, c)
             /\ \A slot \in 0..(TraceMaxInstances - 1) :
                  (slot < c \/ slot >= c + Needed(traceData)) =>
                    flatTraces'.instanceMatrix[slot] = flatTraces.instanceMatrix[slot]
    ]_vars

(* The three-waypoint trace was added behind a one-segment trace: its two
   segments hold slots 1 and 2. *)
C24_Witness ==
  /\ lastCall.op = "addTrace"
  /\ Len(segmentsOf(flatTraces, "t1")) = 2
  /\ segmentsOf(flatTraces, "t1")[1].instanceId = 1
  /\ segmentsOf(flatTraces, "t1")[2].instanceId = 2
  /\ Len(segmentsOf(flatTraces, "t2")) = 1

(* The length of waypoint pair i of a polyline *)
PairLength(traceData, i) ==
  LET dx == traceData.points[i + 1][1] - traceData.points[i][1]
      dz == traceData.points[i + 1][2] - traceData.points[i][2]
  IN  Sqrt(dx * dx + dz * dz)

(* The summed length of the first r waypoint pairs *)
RECURSIVE LengthOfPairs(_, _)
LengthOfPairs(traceData, r) ==
  IF r = 0 THEN 0
  ELSE LengthOfPairs(traceData, r - 1) + PairLength(traceData, r)

(* C25: addTrace of a polyline needing N-1 segments on a store with only
   r < N-1 free slots stores exactly the segments of the first r waypoint
   pairs, at the r last slots, keeps the trace's record, and leaves the
   instance count at the capacity; the instance count never exceeds the
   capacity; calculateTraceLength and calculateTraceArea of that trace are the
   sums over those r segments. *)
C25_PartialTrace ==
  [][ /\ flatTraces'.instanceCount <= TraceMaxInstances
      /\ \A traceData \in TraceInputs :
           (AddTraceOf(traceData) /\ FreeSlots(flatTraces) < Needed(traceData)) =>
             LET c == flatTraces.instanceCount
                 r == FreeSlots(flatTraces)
             IN  /\ Len(segmentsOf(flatTraces', traceData.id)) = r
                 /\ \A i \in 1..r : SegmentAt(flatTraces', traceData, i, c)
                 /\ SelectSeq(flatTraces'.traces, LAMBDA t : t.id = traceData.id)
                      = <<traceData>>
                 /\ flatTraces'.instanceCount = TraceMaxInstances
                 /\ flatTraces'.instancedMeshCount = TraceMaxInstances
                 /\ calculateTraceLength(flatTraces', traceData.id)
                      = LengthOfPairs(traceData, r)
                 /\ calculateTraceArea(flatTraces', traceData.id)
                      = LengthOfPairs(traceData, r) * traceData.width
    ]_vars

(* The three-waypoint trace was added with one slot free: it is stored with
   its first segment only, at the last slot, and its length is that
   segment's. *)
C25_Witness ==
  /\ lastCall.op = "addTrace"
  /\ flatTraces.instanceCount = TraceMaxInstances
  /\ Len(segmentsOf(flatTraces, "t1")) = 1
  /\ segmentsOf(flatTraces, "t1")[1].instanceId = TraceMaxInstances - 1
  /\ calculateTraceLength(flatTraces, "t1") = 10
  /\ calculateTraceArea(flatTraces, "t1") = 10

(* C26: addTrace on a trace store whose capacity is exhausted returns false
   and leaves the trace records, the segment lists and the instance count as
   they were. *)
C26_ExhaustedRejects ==
  [][\A traceData \in TraceInputs :
       (AddTraceOf(traceData) /\ FreeSlots(flatTraces) = 0) =>
         /\ lastCall'.ret = FALSE
         /\ flatTraces'.traces = flatTraces.traces
         /\ flatTraces'.traceSegments = flatTraces.traceSegments
         /\ flatTraces'.instanceCount = flatTraces.instanceCount
    ]_vars

(* The sums the two queries are to return, taken over the first n stored
   segments from the last one down *)
RECURSIVE SumOfLengths(_, _)
SumOfLengths(segments, n) ==
  IF n = 0 THEN 0 ELSE segments[n].length + SumOfLengths(segments, n - 1)

RECURSIVE SumOfAreas(_, _)
SumOfAreas(segments, n) ==
  IF n = 0 THEN 0
  ELSE (segments[n].length * segments[n].width) + SumOfAreas(segments, n - 1)

(* The trace with waypoints (0,0), (10,0), (10,10) and width 1 *)
ExampleTrace == CHOOSE t \in TraceInputs : t.id = "t1"

(* C27: for every trace id, calculateTraceLength is the sum of the lengths
   of the trace's stored segments and calculateTraceArea the sum of their
   length * width, neither is negative, and both are 0 for an id that is not
   stored; the trace (0,0), (10,0), (10,10) of width 1, added where two slots
   are free, has two segments of length 10, length 20 and area 20. *)
C27_LengthAndArea ==
  /\ \A id \in TraceIds :
       LET segments == segmentsOf(flatTraces, id)
       IN  /\ calculateTraceLength(flatTraces, id)
                = SumOfLengths(segments, Len(segments))
           /\ calculateTraceArea(flatTraces, id)
                = SumOfAreas(segments, Len(segments))
           /\ calculateTraceLength(flatTraces, id) >= 0
           /\ calculateTraceArea(flatTraces, id) >= 0
           /\ ~Has(flatTraces.traces, id) =>
                /\ calculateTraceLength(flatTraces, id) = 0
                /\ calculateTraceArea(flatTraces, id) = 0
  /\ FreeSlots(flatTraces) >= 2 =>
       LET added == addTrace(flatTraces, ExampleTrace).store
           segments == segmentsOf(added, ExampleTrace.id)
       IN  /\ Len(segments) = 2
           /\ segments[1].length = 10
           /\ segments[2].length = 10
           /\ calculateTraceLength(added, ExampleTrace.id) = 20
           /\ calculateTraceArea(added, ExampleTrace.id) = 20

(* The example trace is stored whole beside the four-waypoint trace cut to
   one segment of width 2: lengths 20 and 3, areas 20 and 6. *)
C27_Witness ==
  /\ Len(segmentsOf(flatTraces, "t1")) = 2
  /\ calculateTraceLength(flatTraces, "t1") = 20
  /\ calculateTraceArea(flatTraces, "t1") = 20
  /\ calculateTraceLength(flatTraces, "t5") = 3
  /\ calculateTraceArea(flatTraces, "t5") = 6
  /\ calculateTraceLength(flatTraces, "t9") = 0

(* The stored segments that hold a slot, as <<trace id, index>> pairs *)
OwnersOf(store, slot) ==
  UNION { { <<store.traceSegments[e].id, k>> :
              k \in { k \in 1..Len(store.traceSegments[e].segments) :
                       store.traceSegments[e].segments[k].instanceId = slot } } :
          e \in 1..Len(store.traceSegments) }

(* C28: in every reachable state of the trace store each drawn slot
   0..instanceCount-1 is held by exactly one segment of exactly one stored
   trace, getTraceIdByInstanceId returns that trace's id for it and
   getTraceByMesh that trace's record, and getTraceIdByInstanceId returns
   null for every slot that is not drawn. *)
C28_ReverseLookup ==
  \A slot \in 0..(TraceMaxInstances - 1) :
    IF slot < flatTraces.instanceCount
      THEN /\ Cardinality(OwnersOf(flatTraces, slot)) = 1
           /\ \E owner \in OwnersOf(flatTraces, slot) :
                /\ getTraceIdByInstanceId(flatTraces, slot) = owner[1]
                /\ Has(flatTraces.traces, owner[1])
                /\ Len(getTraceByMesh(flatTraces, slot)) = 1
      ELSE getTraceIdByInstanceId(flatTraces, slot) = Null

----------------------------------------------------------------------------
(* The copper heights: thickness changes beside placements (LayerSpec) *)

(* Board thicknesses of 0.2 mm, 1.6 mm and 4 mm; each is an even number of
   units, so that half of it is a whole number of units. *)
Thicknesses == {20, 160, 400}

UpdateBoardThickness ==
  \E newThickness \in Thicknesses :
    /\ boardThickness' = updateBoardThickness(newThickness)
    /\ lastCall' = Call("updateBoardThickness", TRUE, 0)
    /\ UNCHANGED <<engineVars, smdPads, flatTraces, throughHoles,
                   interactionVars, ledgerVars>>

(* A top-layer and a bottom-layer trace *)
LayerTraces == {ExampleTrace, DemoTrace}

AddLayerTrace == \E traceData \in LayerTraces : AddTraceOf(traceData)

LayerNext ==
  \/ UpdateBoardThickness
  \/ AddSinglePad
  \/ ClearPads
  \/ AddLayerTrace
  \/ ClearTraces

LayerSpec == Init /\ [][LayerNext]_vars

(* C29: for the current thickness t > 0, after any sequence of
   updateBoardThickness calls, topZ = t/2 + clearance and
   bottomZ = -t/2 - clearance; as the program computes them,
   topZ - bottomZ (twice topZ) >= t + 2*clearance and topZ > t/2 > bottomZ;
   and validateZSeparation() returns true. *)
C29_LayerOffsets ==
  boardThickness > 0 =>
    LET t == Thickness64(boardThickness)
        topZ == TopCopperZ64(boardThickness)
    IN  /\ 2 * getTopCopperZ = boardThickness + (2 * COPPER_OFFSET_MM)
        /\ getBottomCopperZ = 0 - getTopCopperZ
        /\ ~Less(Twice64(topZ), Add64(t, Twice64(CopperOffset64)))
        /\ Less(Half64(t), topZ)
        /\ validateZSeparation(boardThickness)

(* The layer offset of a layer for the board's current thickness *)
LayerOffset(layer) == IF layer = "top" THEN getTopCopperZ ELSE getBottomCopperZ

(* Every live pad's instance is at the offset of the pad's layer *)
PadsAtLayerOffset ==
  \A i \in 1..Len(smdPads.padData) :
    smdPads.instanceMatrix[getInstanceId(smdPads, smdPads.padData[i].id)].pos[2]
      = LayerOffset(smdPads.padData[i].layer)

(* Every stored segment's instance is at the offset of its trace's layer *)
TracesAtLayerOffset ==
  \A i \in 1..Len(flatTraces.traces) :
    LET segments == segmentsOf(flatTraces, flatTraces.traces[i].id)
    IN  \A k \in 1..Len(segments) :
          flatTraces.instanceMatrix[segments[k].instanceId].pos[2]
            = LayerOffset(flatTraces.traces[i].layer)

(* C30: every instance placed by addPad or addTrace has its height equal to
   the layer offset of its layer for the board's current thickness: topZ for
   a top-layer entity, bottomZ for a bottom-layer one. *)
C30_PlacedAtLayerOffset ==
  /\ PadsAtLayerOffset
  /\ TracesAtLayerOffset

----------------------------------------------------------------------------
(* Board.updateDimensions beside placements (DimensionSpec) *)

UpdateDimensions ==
  \E thickness \in Thicknesses :
    /\ board.geometriesCreated < MaxImports
    /\ board' = updateDimensions(board, board.width, board.height, thickness)
    /\ boardThickness' = updateBoardThickness(thickness)
    /\ lastCall' = Call("updateDimensions", TRUE, 0)
    /\ UNCHANGED <<engine, shaderManager, raf, viewer, smdPads, flatTraces,
                   throughHoles, interactionVars, ledgerVars>>

AddDemoHole == AddHoleOf(DemoHole)

DimensionNext ==
  \/ UpdateDimensions
  \/ AddSinglePad
  \/ AddLayerTrace
  \/ AddDemoHole

DimensionSpec == Init /\ [][DimensionNext]_vars

(* Every live hole's depth, in its record and in its instance, is the one
   derived from the board's current thickness *)
HolesAtDepth ==
  \A i \in 1..Len(throughHoles.holeData) :
    /\ throughHoles.holeData[i].depth = boardThickness + HOLE_EXTRA_DEPTH
    /\ \E slot \in 0..(throughHoles.instanceCount - 1) :
         throughHoles.instanceMatrix[slot] = HoleMatrix(throughHoles.holeData[i])

(* C31: after Board.updateDimensions with a new thickness every live pad
   and trace-segment instance sits at topZ / bottomZ of the new thickness and
   every live hole's depth is derived from the new thickness. *)
C31_ThicknessReachesInstances ==
  lastCall.op = "updateDimensions" =>
    /\ PadsAtLayerOffset
    /\ TracesAtLayerOffset
    /\ HolesAtDepth

----------------------------------------------------------------------------
(* Store teardown (DisposalSpec) *)

(* SMDPads.dispose: the resources it disposes, and the store it leaves *)
PadDisposals ==
  {"rectangularGeometry", "circularGeometry", "rectangularEdgeGeometry",
   "circularEdgeGeometry", "smd_pads.material", "smd_pad_edges.material"}

disposePads(store) == [store EXCEPT !.padData = << >>]

(* FlatTraces.dispose: disposes, takes the mesh out of the scene, and leaves
   the store's maps and count alone *)
TraceDisposals == {"baseGeometry", "flat_traces_instanced.material"}

disposeTraces(store) == store

(* ThroughHoles.dispose *)
HoleDisposals == {"holeGeometry", "through_holes.material"}

disposeHoles(store) == [store EXCEPT !.holeData = << >>]

DisposeCounted(disposals) ==
  /\ \A r \in disposals : disposeCalls[r] < MaxDisposeCalls
  /\ disposeCalls' =
       [r \in Resources |->
          IF r \in disposals THEN disposeCalls[r] + 1 ELSE disposeCalls[r]]

DisposePads ==
  /\ DisposeCounted(PadDisposals)
  /\ smdPads' = disposePads(smdPads)
  /\ lastCall' = Call("disposePads", TRUE, 0)
  /\ UNCHANGED <<engineVars, boardThickness, flatTraces, throughHoles,
                 interactionVars, resourceTracker>>

DisposeTraces ==
  /\ DisposeCounted(TraceDisposals)
  /\ flatTraces' = disposeTraces(flatTraces)
  /\ engine' = [engine EXCEPT !.scene = @ \ {TraceMesh}]
  /\ lastCall' = Call("disposeTraces", TRUE, 0)
  /\ UNCHANGED <<shaderManager, raf, viewer, board, boardThickness, smdPads,
                 throughHoles, interactionVars, resourceTracker>>

DisposeHoles ==
  /\ DisposeCounted(HoleDisposals)
  /\ throughHoles' = disposeHoles(throughHoles)
  /\ lastCall' = Call("disposeHoles", TRUE, 0)
  /\ UNCHANGED <<engineVars, boardThickness, smdPads, flatTraces,
                 interactionVars, resourceTracker>>

AddDemoTrace == AddTraceOf(DemoTrace)

DisposalNext ==
  \/ AddSinglePad
  \/ AddDemoTrace
  \/ AddDemoHole
  \/ DisposePads
  \/ DisposeTraces
  \/ DisposeHoles

DisposalSpec == Init /\ [][DisposalNext]_vars

PadsDisposed == smdPads.padData = << >> /\ smdPads.instanceCount = 0

TracesDisposed == flatTraces.traces = << >> /\ flatTraces.instanceCount = 0

HolesDisposed == throughHoles.holeData = << >> /\ throughHoles.instanceCount = 0

(* C32: right after dispose() of the pad, trace or hole store, that store
   holds no entity (getAllPads / getAllTraces / getAllHoles are empty) and
   its instance count is 0. *)
C32_DisposeEmptiesStore ==
  /\ lastCall.op = "disposePads" => PadsDisposed
  /\ lastCall.op = "disposeTraces" => TracesDisposed
  /\ lastCall.op = "disposeHoles" => HolesDisposed
----------------------------------------------------------------------------
(* Materials without the interaction uniforms (ViewerSpec) *)

Plain(m) == m \in Meshes /\ ~HasHoverUniforms(m) /\ ~HasSelectionUniforms(m)

UniformsKept(m) == m \in Meshes => uniforms'[m] = uniforms[m]

(* C33: a pointer move onto or off an instance of a mesh whose material lacks
   the interaction uniforms, and a click selecting or deselecting such an
   instance, complete: the material's uniforms are left exactly as they were
   (no uniform is written or created), and the hovered / selected pair, the
   cursor and the affordance are updated as for any other mesh. *)
C33_PlainMaterialTolerated ==
  [][ \A hit \in Hits :
        /\ MouseMoveTo(hit) =>
             /\ Plain(hit.object) =>
                  /\ UniformsKept(hit.object)
                  /\ HoveredPair' = <<hit.object, hit.instanceId>>
                  /\ interaction'.cursor = "pointer"
             /\ Plain(interaction.hoveredObject) =>
                  /\ UniformsKept(interaction.hoveredObject)
                  /\ HoveredPair' = <<hit.object, hit.instanceId>>
        /\ ClickAt(hit) =>
             /\ Plain(hit.object) =>
                  /\ UniformsKept(hit.object)
                  /\ SelectedPair' = <<hit.object, hit.instanceId>>
                  /\ interaction'.transformControls = hit.object
             /\ Plain(interaction.selectedObject) =>
                  /\ UniformsKept(interaction.selectedObject)
                  /\ SelectedPair' = <<hit.object, hit.instanceId>>
                  /\ interaction'.transformControls = hit.object ]_vars

(* The outline of a hole is hovered and the outline of a pad is selected and
   carries the affordance, and neither material has gained a uniform. *)
C33_Witness ==
  /\ interaction.hoveredObject = HoleEdgeMesh
  /\ interaction.selectedObject = PadEdgeMesh
  /\ interaction.transformControls = PadEdgeMesh
  /\ Plain(HoleEdgeMesh) /\ Plain(PadEdgeMesh)
  /\ uniforms[HoleEdgeMesh] = NoInteractionUniforms
  /\ uniforms[PadEdgeMesh] = NoInteractionUniforms
----------------------------------------------------------------------------
(* The inspector (InspectorSpec) *)

InspectorNext ==
  \/ InitializeDemo
  \/ SelectionInterval
  \/ OnMouseMove
  \/ OnClick

InspectorSpec == Init /\ [][InspectorNext]_vars

(* The details of the entity that owns slot `slot` of mesh m, as the
   inspector is to show them; nothing when no entity owns the slot *)
DetailsAt(m, slot) ==
  IF m \in {PadMesh, PadEdgeMesh}
    THEN { [id |-> pad.id, type |-> "pad", position |-> pad.position,
            area |-> calculatePadArea(smdPads, pad.id)] :
             pad \in { smdPads.padData[i] :
                         i \in { i \in 1..Len(smdPads.padData) :
                                   getInstanceId(smdPads, smdPads.padData[i].id)
                                     = slot } } }
  ELSE IF m = TraceMesh
    THEN { [id |-> trace.id, type |-> "trace",
            position |-> <<trace.points[1][1], 0, trace.points[1][2]>>,
            area |-> Area(calculateTraceArea(flatTraces, trace.id), 0)] :
             trace \in { flatTraces.traces[i] :
                           i \in { i \in 1..Len(flatTraces.traces) :
                                     \E o \in OwnersOf(flatTraces, slot) :
                                       o[1] = flatTraces.traces[i].id } } }
  ELSE { [id |-> hole.id, type |-> "pad", position |-> hole.position,
          area |-> Area(0, hole.diameter * hole.diameter)] :
           hole \in { throughHoles.holeData[i] :
                        i \in { i \in 1..Len(throughHoles.holeData) : i = slot + 1 } } }

(* C34: after every polling tick, with an instance selected the inspector
   shows the details of the entity at the selected (mesh, slot), wherever the
   pointer is, and with nothing selected the inspector shows nothing. *)
C34_InspectorShowsSelection ==
  [][ SelectionInterval =>
        /\ interaction.selectedObject = Null => viewer'.selectedComponent = << >>
        /\ interaction.selectedObject # Null =>
             \A details \in DetailsAt(interaction.selectedObject,
                                      interaction.selectedInstanceId) :
               viewer'.selectedComponent = <<details>> ]_vars
----------------------------------------------------------------------------
(* The ledger after an import (ImportSpec) *)

Imported ==
  lastCall.op \in {"importFromString", "loadBoardFromFile"} /\ lastCall.ret

StoreGeometries ==
  UNION { c.ownGeometries : c \in Components } \cup { MeshGeometry(m) : m \in Meshes }

(* C35: after an import that went through (it cleared the board first), the
   ledger holds the instanced meshes of the three stores, their geometries
   and their materials, and getResourceStats counts them. *)
C35_ClearBoardTracksStores ==
  Imported =>
    /\ Meshes \subseteq resourceTracker.meshes
    /\ { MeshMaterial(m) : m \in Meshes } \subseteq resourceTracker.materials
    /\ StoreGeometries \subseteq resourceTracker.geometries
    /\ getResourceStats(resourceTracker).meshes >= Cardinality(Meshes)
    /\ getResourceStats(resourceTracker).materials >= Cardinality(Meshes)
    /\ getResourceStats(resourceTracker).geometries >= Cardinality(StoreGeometries)
----------------------------------------------------------------------------
(* Authoring calls between pointer events (AuthoringSpec) *)

AuthoringNext ==
  \/ InitializeDemo
  \/ SetInteractableObjects
  \/ OnMouseMove
  \/ OnClick
  \/ OnTransformChange
  \/ RemovePad
  \/ ClearPads

AuthoringSpec == Init /\ [][AuthoringNext]_vars

(* The ids of the entities that own the live slot a pair designates: empty
   when the slot is not live *)
EntityAt(pair) ==
  IF pair[1] \in {PadMesh, PadEdgeMesh}
    THEN { id \in Keys(smdPads.padData) :
             /\ pair[2] < smdPads.instanceCount
             /\ getInstanceId(smdPads, id) = pair[2] }
  ELSE IF pair[1] = TraceMesh
    THEN { o[1] : o \in { o \in OwnersOf(flatTraces, pair[2]) :
                            pair[2] < flatTraces.instanceCount } }
  ELSE IF pair[1] \in {HoleMesh, HoleEdgeMesh}
    THEN { throughHoles.holeData[i].id :
             i \in { i \in 1..Len(throughHoles.holeData) :
                       i = pair[2] + 1 /\ pair[2] < throughHoles.instanceCount } }
  ELSE {}

PairLive(pair) == pair = NoPair \/ EntityAt(pair) # {}

(* C36: the hovered and the selected pair designate a live slot in every
   state; a removePad or clear step leaves each pair cleared or designating
   the entity it designated before the step; a drag sample is applied only to
   a live slot. *)
C36_PairsFollowEntities ==
  [][ /\ PairLive(HoveredPair)' /\ PairLive(SelectedPair)'
      /\ (RemovePad \/ ClearPads) =>
           /\ HoveredPair' = NoPair \/ EntityAt(HoveredPair)' = EntityAt(HoveredPair)
           /\ SelectedPair' = NoPair \/ EntityAt(SelectedPair)' = EntityAt(SelectedPair)
      /\ OnTransformChange => EntityAt(SelectedPair) # {} ]_vars
----------------------------------------------------------------------------
(* The outline meshes (EdgeSpec) *)

EdgeNext ==
  \/ AddSinglePad
  \/ UpdatePadPosition
  \/ UpdatePadSize
  \/ RemovePad
  \/ ClearPads
  \/ AddHole
  \/ ClearHoles

EdgeSpec == Init /\ [][EdgeNext]_vars

(* The outline mesh of a store draws what its main mesh draws *)
Mirrors(store) ==
  /\ store.edgeMeshCount = store.instancedMeshCount
  /\ \A slot \in 0..(store.instanceCount - 1) :
       store.edgeInstanceMatrix[slot] = store.instanceMatrix[slot]

PadEdgesMirror == lastCall.op # "new" => Mirrors(smdPads)

HoleEdgesMirror == lastCall.op # "new" => Mirrors(throughHoles)

(* C37: once a store operation has run, the outline mesh of the pad store
   and the outline mesh of the hole store draw as many instances as the main
   mesh, and every live slot holds the same transform in both. *)
C37_EdgeMirrorsMain == PadEdgesMirror /\ HoleEdgesMirror
----------------------------------------------------------------------------
(* Copper planes on the board's layer objects (PlaneSpec) *)

Layers == {"top", "bottom"}

AddCopperPlane ==
  \E layer \in Layers :
    /\ Len(board.copperPlanes) < MaxPlanes
    /\ board' = addCopperPlane(board, layer, 1000, 500, 300, 400, boardThickness)
    /\ lastCall' = Call("addCopperPlane", TRUE, 0)
    /\ UNCHANGED <<engine, shaderManager, raf, viewer, boardThickness, smdPads,
                   flatTraces, throughHoles, interactionVars, ledgerVars>>

CreateCopperPour ==
  \E layer \in Layers :
    /\ Len(board.copperPlanes) < MaxPlanes
    /\ board' = createCopperPour(board, layer, boardThickness)
    /\ lastCall' = Call("createCopperPour", TRUE, 0)
    /\ UNCHANGED <<engine, shaderManager, raf, viewer, boardThickness, smdPads,
                   flatTraces, throughHoles, interactionVars, ledgerVars>>

PlaneNext ==
  \/ AddCopperPlane
  \/ CreateCopperPour
  \/ UpdateDimensions

PlaneSpec == Init /\ [][PlaneNext]_vars

(* The world height of a plane: the board mesh stands at height 0, the
   plane's layer object at its own height in the board mesh, and the plane at
   its own height in the layer object *)
WorldHeight(plane) ==
  (IF plane.layer = "top" THEN board.topCopperLayerY ELSE board.bottomCopperLayerY)
    + plane.position[2]

(* C38: every copper plane on the board is at world height topZ (top layer)
   or bottomZ (bottom layer) of the board's current thickness. *)
C38_PlaneAtLayerHeight ==
  \A i \in 1..Len(board.copperPlanes) :
    WorldHeight(board.copperPlanes[i]) = LayerOffset(board.copperPlanes[i].layer)
----------------------------------------------------------------------------
(* Engine.reset (ResetSpec) *)

(* Engine.reset(): scene.dispose(), a new Scene, interaction.deselectObject()
   and interaction.clearHoverState() *)
engineReset(W) ==
  LET S == clearHoverState(deselectObject([interaction |-> W.interaction,
                                           uniforms |-> W.uniforms]))
  IN  [W EXCEPT !.engine.scene = {},
                !.engine.sceneId = @ + 1,
                !.interaction = S.interaction,
                !.uniforms = S.uniforms,
                !.disposeCalls =
                   [r \in Resources |->
                      @[r] + SceneDisposalsOf(W.engine.scene, r)]]

EngineReset ==
  /\ engine.sceneId <= MaxResets
  /\ \A r \in Resources :
       disposeCalls[r] + SceneDisposalsOf(engine.scene, r) <= MaxDisposeCalls
  /\ LET W == engineReset(CurrentW)
     IN  /\ engine' = W.engine
         /\ interaction' = W.interaction
         /\ uniforms' = W.uniforms
         /\ disposeCalls' = W.disposeCalls
  /\ lastCall' = Call("Engine.reset", TRUE, 0)
  /\ UNCHANGED <<board, boardThickness, smdPads, flatTraces, throughHoles,
                 resourceTracker, shaderManager, raf, viewer>>

ResetNext ==
  \/ InitializeDemo
  \/ SetInteractableObjects
  \/ OnMouseMove
  \/ OnClick
  \/ OnTransformChange
  \/ EngineReset

ResetSpec == Init /\ [][ResetNext]_vars

NothingHoveredOrSelected ==
  /\ HoveredPair = NoPair
  /\ SelectedPair = NoPair
  /\ interaction.transformControls = Null
  /\ ShownHovered = {} /\ ShownSelected = {}

AffordanceInCurrentScene ==
  interaction.transformControlsScene \in {NoScene, engine.sceneId}

(* C39: an Engine.reset() step leaves nothing hovered or selected and
   Interaction holding the scene the engine now holds; after every step a
   drag affordance that is in a scene is in the engine's current scene. *)
C39_ResetUsesCurrentScene ==
  [][ /\ EngineReset =>
           /\ NothingHoveredOrSelected'
           /\ interaction'.scene = engine'.sceneId
      /\ AffordanceInCurrentScene' ]_vars
----------------------------------------------------------------------------
(* Component types of an import (ImportSpec) *)

ComponentTypes == {"smd_rect", "smd_circle", "path", "drill"}

PadKinds == {"rect", "circle"}

(* C40: an import that goes through was given a document whose components
   all have type smd_rect, smd_circle, path or drill, and leaves a pad store
   in which every pad has kind rect or circle. *)
C40_OnlyKnownTypes ==
  [][ \A data \in Documents :
        /\ ImportOf("importFromString", data) \/ ImportOf("loadBoardFromFile", data)
        /\ lastCall'.ret
        => /\ \A i \in 1..Len(data.components.v) :
                data.components.v[i].type.v \in ComponentTypes
           /\ \A i \in 1..Len(smdPads'.padData) :
                smdPads'.padData[i].type \in PadKinds ]_vars
====
